---- MODULE Spec2Model ----
(***************************************************************************)
(* Identifier reconciliation of the RBH/RBF homolog-discovery workflow:    *)
(* the header truncator and the genome-to-RGS mapper of script 008, the    *)
(* modified-genome writer of script 009 and the reciprocal filter of       *)
(* script 013, the species filter of script 014, the remappers of scripts  *)
(* 015 and 016 and the reference-set validator of script 001.              *)
(*                                                                         *)
(* A Python str is modelled as a sequence of one-character strings, so     *)
(* slicing, splitting, stripping and substring tests are computed as the   *)
(* scripts compute them.                                                    *)
(***************************************************************************)
EXTENDS Integers, Sequences, FiniteSets, TLC

VARIABLES
    pc,                     \* position of the running script
    \* ---- create_truncated_headers_map (script 008) ----
    max_length,
    truncate_to,
    original_header,        \* the loop variable; None before the first header
    original_to_truncated,
    truncated_seen,
    headers_done,           \* number of list elements the loop has consumed
    \* ---- create_rgs_genome_mapping and main (script 008) ----
    rgs_sequences,          \* full header -> (species, source, sequence)
    blast_report,           \* the report of the current iteration; None before the first
    lines_read,             \* the lines of blast_report read so far
    reports_done,           \* number of list elements the loop has consumed
    genome_to_rgs,
    rgs_seen,
    genome_ids_seen,
    header_truncation_map,
    output_files,           \* artifact -> lines written
    exit_status,            \* None while running
    \* ---- the mapping table of script 008, as scripts 009 and 013 read it ----
    mapping_file,
    \* ---- load_rgs_identifiers and parse_reciprocal_blast_results (script 013) ----
    rgs_identifiers,
    recip_lines_read,       \* the lines of the reciprocal report read so far
    keepers,
    output_dropped,         \* the lines written to the rejects log
    output_fasta_013,       \* the keeper FASTA: None when absent, else its lines
    \* ---- read_mapping_file and create_modified_genome (script 009) ----
    genome_identifiers___truncated_rgs_headers,
    genome_identifiers___full_rgs_headers,
    rgs_sequences_009,      \* rgs_sequences of script 009: header -> sequence
    genome_lines_read,      \* the lines of the genome file read so far
    output_fasta,           \* the strings written to the modified genome
    current_genome_id,
    writing_replacement,
    sequences_replaced,
    sequences_kept,
    \* ---- load_species_keeper_list and filter_sequences_by_species (script 014) ----
    species_keeper_list,    \* the lines of the allow-list file
    keeper_species,
    input_fasta_014,        \* the lines of the input FASTA read so far
    output_fasta_014,       \* the output file: None when absent, else its lines
    should_write,
    kept_count,
    dropped_count,
    \* ---- load_identifier_mapping and remap_fasta_identifiers (script 015) ----
    identifier_mapping_file, \* the lines of the candidate-to-canonical table
    short_ids___gigantic_ids,
    input_fasta_015,        \* the lines of the candidate FASTA read so far
    output_fasta_015,       \* the lines written to the remapped FASTA
    sequences_processed,
    sequences_remapped,
    sequences_not_found,
    \* ---- load_rgs_to_cgs_map, remap_rgs_sequences and main (script 016) ----
    rgs_map_file,           \* the mapping table of script 008: None when absent, else its lines
    cgs_mapping_file,       \* the lines of the candidate-to-canonical table
    cgs_file,               \* the lines of the remapped candidate FASTA of script 015
    rgs_headers___cgs_ids,  \* a dict in insertion order: a sequence of <<key, value>>
    cgs_ids___gigantic_ids,
    rgs_file_read,          \* the lines of the reference FASTA read so far
    remapped_sequences,     \* list of <<header, sequence>>
    current_header,
    current_sequence_parts,
    unmapped_count,
    mapped_count,
    output_file_016,        \* the strings written to the assembled file
    total_sequences,
    \* script 001 (validate_headers and the end of main)
    input_fasta_001,        \* the lines of the reference FASTA read so far
    all_valid,
    statistics,
    sequence_ids,
    headers_valid,          \* None until validate_headers has returned
    output_file_001,        \* None until create_rgs_output has written rgs.aa
    validation_result,      \* the result line of the report, None until written
    \* script 002 (generate_blastp_commands)
    database_list_read,     \* the lines of the database list read so far
    commands                \* the commands generated so far

truncVars == <<max_length, truncate_to, original_header, original_to_truncated,
               truncated_seen, headers_done>>

mapperVars == <<blast_report, lines_read, reports_done, genome_to_rgs, rgs_seen,
                genome_ids_seen>>

mainVars == <<rgs_sequences, header_truncation_map, output_files, exit_status>>

filterVars == <<rgs_identifiers, recip_lines_read, keepers, output_dropped,
                output_fasta_013>>

synthVars == <<genome_identifiers___truncated_rgs_headers,
               genome_identifiers___full_rgs_headers, rgs_sequences_009,
               genome_lines_read, output_fasta, current_genome_id, writing_replacement,
               sequences_replaced, sequences_kept>>

speciesVars == <<species_keeper_list, keeper_species, input_fasta_014, output_fasta_014,
                 should_write, kept_count, dropped_count>>

\* the variables of the scripts that run after the reciprocal filter
remapVars == <<identifier_mapping_file, short_ids___gigantic_ids, input_fasta_015,
               output_fasta_015, sequences_processed, sequences_remapped,
               sequences_not_found>>

assembleVars == <<rgs_map_file, cgs_mapping_file, cgs_file, rgs_headers___cgs_ids,
                  cgs_ids___gigantic_ids, rgs_file_read, remapped_sequences,
                  current_header, current_sequence_parts, unmapped_count, mapped_count,
                  output_file_016, total_sequences>>

validateVars == <<input_fasta_001, all_valid, statistics, sequence_ids, headers_valid,
                  output_file_001, validation_result>>

searchVars == <<database_list_read, commands>>

laterVars == <<speciesVars, remapVars, assembleVars, validateVars, searchVars>>

vars == <<pc, truncVars, mapperVars, mainVars, mapping_file, filterVars, synthVars,
          laterVars>>

None == "None"

(***************************************************************************)
(* Python str and dict primitives                                          *)
(***************************************************************************)
Repeat(c, n) == [i \in 1..n |-> c]

\* s[:n], negative n counted from the end
SliceTo(s, n) ==
    LET stop == IF n < 0
                THEN (IF Len(s) + n < 0 THEN 0 ELSE Len(s) + n)
                ELSE (IF n > Len(s) THEN Len(s) ELSE n)
    IN SubSeq(s, 1, stop)

\* s[n:], n >= 0
SliceFrom(s, n) == SubSeq(s, (IF n > Len(s) THEN Len(s) ELSE n) + 1, Len(s))

\* d[k] = v
DictSet(d, k, v) == [x \in DOMAIN d \cup {k} |-> IF x = k THEN v ELSE d[x]]

\* d.get(k, default)
DictGet(d, k, default) == IF k \in DOMAIN d THEN d[k] ELSE default

EmptyDict == [x \in {} |-> None]

Digits == <<"0", "1", "2", "3", "4", "5", "6", "7", "8", "9">>

RECURSIVE Decimal(_)
Decimal(n) ==
    IF n < 10 THEN <<Digits[n + 1]>>
    ELSE Decimal(n \div 10) \o <<Digits[(n % 10) + 1]>>

\* f"{counter:03d}": at least three digits, more when the number needs them
Format03d(counter) ==
    LET d == Decimal(counter)
    IN IF Len(d) >= 3 THEN d ELSE Repeat("0", 3 - Len(d)) \o d

Whitespace == {" ", "\t", "\n", "\r"}

RECURSIVE LStrip(_)
LStrip(s) == IF s # <<>> /\ Head(s) \in Whitespace THEN LStrip(Tail(s)) ELSE s

RECURSIVE RStrip(_)
RStrip(s) ==
    IF s # <<>> /\ s[Len(s)] \in Whitespace THEN RStrip(SubSeq(s, 1, Len(s) - 1)) ELSE s

\* s.strip()
Strip(s) == RStrip(LStrip(s))

\* s.split(sep), sep one character
RECURSIVE Split(_, _)
Split(s, sep) ==
    IF \E i \in 1..Len(s) : s[i] = sep
    THEN LET i == CHOOSE j \in 1..Len(s) : s[j] = sep /\ \A k \in 1..(j - 1) : s[k] # sep
         IN <<SubSeq(s, 1, i - 1)>> \o Split(SubSeq(s, i + 1, Len(s)), sep)
    ELSE <<s>>

\* s.startswith(prefix)
StartsWith(s, prefix) == Len(s) >= Len(prefix) /\ SubSeq(s, 1, Len(prefix)) = prefix

\* sub in s
Contains(s, sub) ==
    \E i \in 0..(Len(s) - Len(sub)) : SubSeq(s, i + 1, i + Len(sub)) = sub

\* the characters of the model in code-point order
Ascii == <<"\t", "\n", "\r", " ", "#", "-", ".", "/">> \o Digits \o
         <<">", "A", "C", "D", "G", "H", "K", "L", "M", "S", "_",
           "a", "b", "c", "d", "e", "f", "g", "h", "i", "l", "m", "n", "o", "p",
           "r", "s", "t", "u", "x", "y">>

CharCode(c) == CHOOSE i \in 1..Len(Ascii) : Ascii[i] = c

\* a < b for str
RECURSIVE StrLess(_, _)
StrLess(a, b) ==
    IF a = <<>> THEN b # <<>>
    ELSE IF b = <<>> THEN FALSE
    ELSE IF Head(a) = Head(b) THEN StrLess(Tail(a), Tail(b))
    ELSE CharCode(Head(a)) < CharCode(Head(b))

\* sorted(S) for a set of str
RECURSIVE Sorted(_)
Sorted(S) ==
    IF S = {} THEN <<>>
    ELSE LET m == CHOOSE x \in S : \A y \in S \ {x} : StrLess(x, y)
         IN <<m>> \o Sorted(S \ {m})

UpperCase == <<"A", "C", "D", "G", "H", "K", "L", "M", "S">>
LowerCase == <<"a", "c", "d", "g", "h", "k", "l", "m", "s">>

\* s.lower()
Lower(s) ==
    [i \in 1..Len(s) |->
        IF \E j \in 1..Len(UpperCase) : UpperCase[j] = s[i]
        THEN LowerCase[CHOOSE j \in 1..Len(UpperCase) : UpperCase[j] = s[i]]
        ELSE s[i]]

\* x in a list
InList(x, list) == \E i \in 1..Len(list) : list[i] = x

\* the lines written for a sequence wrapped at 80 characters
RECURSIVE Wrap80(_)
Wrap80(sequence) ==
    IF sequence = <<>> THEN <<>>
    ELSE <<SliceTo(sequence, 80) \o <<"\n">>>> \o Wrap80(SliceFrom(sequence, 80))

RECURSIVE Flatten(_)
Flatten(seqs) == IF seqs = <<>> THEN <<>> ELSE Head(seqs) \o Flatten(Tail(seqs))

(***************************************************************************)
(* Script 008: create_truncated_headers_map                                *)
(***************************************************************************)
DefaultMaxLength == 50
DefaultTruncateTo == 45

FitsMaxLengthStrict(header, maxLen) == Len(header) < maxLen

\* line 88: the header needs no truncation
FitsMaxLength(header, maxLen) == Len(header) <= maxLen

NextCounterFromZero(seen, truncated_base) == DictGet(seen, truncated_base, -1) + 1

\* lines 96-101: the counter of a truncated base after this header
NextCounter(seen, truncated_base) == DictGet(seen, truncated_base, 0) + 1

\* lines 104-112: base + _NNN, re-cut to max_length - 4 when still too long
SuffixedHeader(header, counter, maxLen, truncTo) ==
    LET truncated_header == SliceTo(header, truncTo) \o <<"_">> \o Format03d(counter)
    IN IF Len(truncated_header) > maxLen
       THEN SliceTo(header, maxLen - 4) \o <<"_">> \o Format03d(counter)
       ELSE truncated_header

\* lines 87-114: one iteration of the loop over headers
TruncateStep(st, header, maxLen, truncTo) ==
    IF FitsMaxLength(header, maxLen)
    THEN [original_to_truncated |-> DictSet(st.original_to_truncated, header, header),
          truncated_seen |-> st.truncated_seen]
    ELSE LET truncated_base == SliceTo(header, truncTo)
             counter == NextCounter(st.truncated_seen, truncated_base)
         IN [original_to_truncated |->
                 DictSet(st.original_to_truncated, header,
                         SuffixedHeader(header, counter, maxLen, truncTo)),
             truncated_seen |-> DictSet(st.truncated_seen, truncated_base, counter)]

\* lines 84-120: the whole function on a list of headers
RECURSIVE TruncateAll(_, _, _, _)
TruncateAll(st, headers, maxLen, truncTo) ==
    IF headers = <<>> THEN st
    ELSE TruncateAll(TruncateStep(st, Head(headers), maxLen, truncTo),
                     Tail(headers), maxLen, truncTo)

create_truncated_headers_map(headers, maxLen, truncTo) ==
    TruncateAll([original_to_truncated |-> EmptyDict, truncated_seen |-> EmptyDict],
                headers, maxLen, truncTo).original_to_truncated

(***************************************************************************)
(* Script 008: create_rgs_genome_mapping                                   *)
(***************************************************************************)
Human == <<"h", "u", "m", "a", "n">>
Fly   == <<"f", "l", "y">>

\* args.rbh_species.split() (line 522)
model_species == <<Human, Fly>>

\* lines 270-274: the first model species whose name occurs in the report's path
RECURSIVE ReportModelSpecies(_, _)
ReportModelSpecies(path, species_list) ==
    IF species_list = <<>> THEN None
    ELSE IF Contains(path, Head(species_list)) THEN Head(species_list)
    ELSE ReportModelSpecies(path, Tail(species_list))

RecordableIgnoringRgsSeen(rgs_query, genome_hit, seen_rgs, seen_genome_ids) ==
    genome_hit \notin seen_genome_ids

RecordableIgnoringGenomeSeen(rgs_query, genome_hit, seen_rgs, seen_genome_ids) ==
    rgs_query \notin seen_rgs

RecordableAlways(rgs_query, genome_hit, seen_rgs, seen_genome_ids) == TRUE

\* line 303: neither identifier has a mapping yet
Recordable(rgs_query, genome_hit, seen_rgs, seen_genome_ids) ==
    rgs_query \notin seen_rgs /\ genome_hit \notin seen_genome_ids

\* lines 283-306: one line of a report of the given model species
MapLine(st, raw_line, report_model_species) ==
    LET line == Strip(raw_line)
        parts == Split(line, "\t")
    IN IF line = <<>> \/ StartsWith(line, <<"#">>) THEN st
       ELSE IF Len(parts) < 2 THEN st
       ELSE LET rgs_query == parts[1]
                genome_hit == parts[2]
                rgs_parts == Split(rgs_query, "-")
            IN IF /\ Len(rgs_parts) >= 2
                  /\ rgs_parts[2] = report_model_species
                  /\ Recordable(rgs_query, genome_hit, st.rgs_seen, st.genome_ids_seen)
               THEN [genome_to_rgs |-> DictSet(st.genome_to_rgs, genome_hit, rgs_query),
                     rgs_seen |-> st.rgs_seen \cup {rgs_query},
                     genome_ids_seen |-> st.genome_ids_seen \cup {genome_hit}]
               ELSE st

ReportSkippedUnlessMissing(report) ==
    report.exists /\ ReportModelSpecies(report.path, model_species) = None

\* lines 264-279: the report contributes nothing (missing file, or no model
\* species in its path)
ReportSkipped(report) ==
    \/ ~report.exists
    \/ ReportModelSpecies(report.path, model_species) = None

MapperState == [genome_to_rgs |-> genome_to_rgs, rgs_seen |-> rgs_seen,
                genome_ids_seen |-> genome_ids_seen]

(***************************************************************************)
(* Script 008: the artifacts main writes                                   *)
(***************************************************************************)
Tab == <<"\t">>
Newline == <<"\n">>

\* lines 439-447
RECURSIVE MappingFileLines(_, _, _)
MappingFileLines(genome_ids, mapping, truncation_map) ==
    IF genome_ids = <<>> THEN <<>>
    ELSE LET genome_id == Head(genome_ids)
             original_rgs_header == mapping[genome_id]
             truncated_header == DictGet(truncation_map, original_rgs_header,
                                         original_rgs_header)
         IN <<genome_id \o Tab \o truncated_header \o Tab \o original_rgs_header
                \o Newline>>
            \o MappingFileLines(Tail(genome_ids), mapping, truncation_map)

write_mapping_file(mapping, truncation_map) ==
    MappingFileLines(Sorted(DOMAIN mapping), mapping, truncation_map)

\* lines 346-358
RECURSIVE RgsFastaLines(_, _, _)
RgsFastaLines(rgs_headers, sequences, truncation_map) ==
    IF rgs_headers = <<>> THEN <<>>
    ELSE LET rgs_header == Head(rgs_headers)
             truncated_header == DictGet(truncation_map, rgs_header, rgs_header)
         IN <<<<">">> \o truncated_header \o Newline>>
            \o Wrap80(sequences[rgs_header].sequence)
            \o RgsFastaLines(Tail(rgs_headers), sequences, truncation_map)

write_rgs_with_genome_ids(sequences, truncation_map) ==
    RgsFastaLines(Sorted(DOMAIN sequences), sequences, truncation_map)

\* lines 377-380
create_model_organism_list(model_fastas) ==
    [i \in 1..Len(model_fastas) |-> model_fastas[i] \o Newline]

\* lines 402-410: a header row, then the truncated entries in sorted order
RECURSIVE TruncationRows(_, _)
TruncationRows(originals, truncation_map) ==
    IF originals = <<>> THEN <<>>
    ELSE (IF Head(originals) # truncation_map[Head(originals)]
          THEN <<Head(originals) \o Tab \o truncation_map[Head(originals)] \o Newline>>
          ELSE <<>>)
         \o TruncationRows(Tail(originals), truncation_map)

TruncationHeaderRow ==
    <<"o", "r", "i", "g", "i", "n", "a", "l", "_", "h", "e", "a", "d", "e", "r", "\t",
      "t", "r", "u", "n", "c", "a", "t", "e", "d", "_", "h", "e", "a", "d", "e", "r", "\n">>

write_header_truncation_map(truncation_map) ==
    <<TruncationHeaderRow>> \o TruncationRows(Sorted(DOMAIN truncation_map), truncation_map)

(***************************************************************************)
(* Headers fed to the truncator                                            *)
(***************************************************************************)
MaxHeaders == 3
MaxLongRun == 10000
MaxLeading == 2

Prefix45 == <<"r", "g", "s", "3", "-", "h", "u", "m", "a", "n", "-", "x", "-">>
            \o Repeat("a", 32)

HShort   == <<"r", "g", "s", "3", "-", "f", "l", "y", "-", "x", "-", "1">>
HPass49  == Prefix45 \o <<"_", "0", "0", "1">>
HExact50 == Prefix45 \o Repeat("b", 5)
HLong51b == Prefix45 \o Repeat("b", 6)
HLong51c == Prefix45 \o Repeat("c", 6)
HLong52  == Prefix45 \o <<"b">> \o Repeat("d", 6)
HOther60 == <<"r", "g", "s", "3", "-", "f", "l", "y", "-", "x", "-">> \o Repeat("e", 49)

HeaderPool == {HShort, HPass49, HExact50, HLong51b, HLong51c, HLong52, HOther60}

\* (max_length, truncate_to) with truncate_to < max_length; the first is the default
LimitPairs == {<<DefaultMaxLength, DefaultTruncateTo>>, <<50, 47>>, <<6, 4>>}

\* the variables of the other scripts, which a run of the truncator alone leaves idle
notTruncVars == <<mapperVars, mainVars, mapping_file, filterVars, synthVars, laterVars>>

MapperIdle ==
    /\ blast_report = None
    /\ lines_read = <<>>
    /\ reports_done = 0
    /\ genome_to_rgs = EmptyDict
    /\ rgs_seen = {}
    /\ genome_ids_seen = {}

MainIdle ==
    /\ rgs_sequences = EmptyDict
    /\ header_truncation_map = EmptyDict
    /\ output_files = EmptyDict
    /\ exit_status = None

FilterIdle ==
    /\ rgs_identifiers = <<>>
    /\ recip_lines_read = <<>>
    /\ keepers = <<>>
    /\ output_dropped = <<>>
    /\ output_fasta_013 = None

SynthIdle ==
    /\ genome_identifiers___truncated_rgs_headers = EmptyDict
    /\ genome_identifiers___full_rgs_headers = EmptyDict
    /\ rgs_sequences_009 = EmptyDict
    /\ genome_lines_read = <<>>
    /\ output_fasta = <<>>
    /\ current_genome_id = None
    /\ writing_replacement = FALSE
    /\ sequences_replaced = 0
    /\ sequences_kept = 0

SpeciesIdle ==
    /\ species_keeper_list = <<>>
    /\ keeper_species = {}
    /\ input_fasta_014 = <<>>
    /\ output_fasta_014 = None
    /\ should_write = FALSE
    /\ kept_count = 0
    /\ dropped_count = 0

RemapIdle ==
    /\ identifier_mapping_file = <<>>
    /\ short_ids___gigantic_ids = EmptyDict
    /\ input_fasta_015 = <<>>
    /\ output_fasta_015 = <<>>
    /\ sequences_processed = 0
    /\ sequences_remapped = 0
    /\ sequences_not_found = 0

AssembleIdle ==
    /\ rgs_map_file = None
    /\ cgs_mapping_file = <<>>
    /\ cgs_file = <<>>
    /\ rgs_headers___cgs_ids = <<>>
    /\ cgs_ids___gigantic_ids = EmptyDict
    /\ rgs_file_read = <<>>
    /\ remapped_sequences = <<>>
    /\ current_header = None
    /\ current_sequence_parts = <<>>
    /\ unmapped_count = 0
    /\ mapped_count = 0
    /\ output_file_016 = <<>>
    /\ total_sequences = None

\* lines 199-210 of script 001
EmptyStatistics ==
    [total_sequences |-> 0, valid_headers |-> 0, invalid_headers |-> 0,
     species_found |-> {}, duplicate_ids |-> <<>>, header_issues |-> <<>>,
     sequence_counts_in_headers |-> {}]

ValidateIdle ==
    /\ input_fasta_001 = <<>>
    /\ all_valid = TRUE
    /\ statistics = EmptyStatistics
    /\ sequence_ids = <<>>
    /\ headers_valid = None
    /\ output_file_001 = None
    /\ validation_result = None

SearchIdle ==
    /\ database_list_read = <<>>
    /\ commands = <<>>

LaterIdle == SpeciesIdle /\ RemapIdle /\ AssembleIdle /\ ValidateIdle /\ SearchIdle

TruncIdle ==
    /\ max_length = DefaultMaxLength
    /\ truncate_to = DefaultTruncateTo
    /\ original_header = None
    /\ original_to_truncated = EmptyDict
    /\ truncated_seen = EmptyDict
    /\ headers_done = 0

TruncState == [original_to_truncated |-> original_to_truncated,
               truncated_seen |-> truncated_seen]

InitTrunc ==
    /\ pc = "truncate"
    /\ \E p \in LimitPairs : max_length = p[1] /\ truncate_to = p[2]
    /\ original_header = None
    /\ original_to_truncated = EmptyDict
    /\ truncated_seen = EmptyDict
    /\ headers_done = 0
    /\ MapperIdle /\ MainIdle
    /\ mapping_file = <<>> /\ FilterIdle /\ SynthIdle /\ LaterIdle

\* the loop body on the next header of the list
TruncateHeader(header) ==
    /\ pc = "truncate"
    /\ LET st == TruncateStep(TruncState, header, max_length, truncate_to)
       IN /\ original_to_truncated' = st.original_to_truncated
          /\ truncated_seen' = st.truncated_seen
    /\ original_header' = header
    /\ headers_done' = headers_done + 1
    /\ UNCHANGED <<pc, max_length, truncate_to, notTruncVars>>

\* main (line 570) passes the keys of a dict: the headers are pairwise distinct
TruncateNext ==
    /\ headers_done < MaxHeaders
    /\ \E header \in HeaderPool \ DOMAIN original_to_truncated : TruncateHeader(header)

\* line 120
TruncateReturn ==
    /\ pc = "truncate"
    /\ pc' = "truncate_returned"
    /\ UNCHANGED <<truncVars, notTruncVars>>

NextTrunc == TruncateNext \/ TruncateReturn

SpecTrunc == InitTrunc /\ [][NextTrunc]_vars

\* a long list whose entries all exceed max_length and share one 45-character prefix
InitTruncLong ==
    /\ pc = "truncate"
    /\ TruncIdle
    /\ MapperIdle /\ MainIdle
    /\ mapping_file = <<>> /\ FilterIdle /\ SynthIdle /\ LaterIdle

\* the list starts with up to MaxLeading distinct headers
LeadingPool == {HLong51b, HLong51c, HOther60}

TruncateLeading ==
    /\ headers_done < MaxLeading
    /\ HLong52 \notin DOMAIN original_to_truncated
    /\ \E header \in LeadingPool \ DOMAIN original_to_truncated : TruncateHeader(header)

\* and goes on with one more header of the prefix, entry after entry: lines
\* 87-114 compare no header with an earlier one
TruncateLongNext ==
    /\ headers_done < MaxLongRun
    /\ TruncateHeader(HLong52)

NextTruncLong == TruncateLeading \/ TruncateLongNext \/ TruncateReturn

SpecTruncLong == InitTruncLong /\ [][NextTruncLong]_vars

(***************************************************************************)
(* Script 008: a run of main over a list of reports                        *)
(***************************************************************************)
MaxReports == 2
MaxRows == 2

G7 == <<"G", "7">>
G8 == <<"G", "8">>

RgsHuman1    == <<"r", "g", "s", "3", "-", "h", "u", "m", "a", "n", "-", "x", "-", "1">>
RgsHumanLong == HLong51b
RgsFly3      == <<"r", "g", "s", "3", "-", "f", "l", "y", "-", "x", "-", "3">>

\* the value read_rgs_sequences stores for a valid header (lines 151-154, 183)
RgsEntry(header, sequence) ==
    [species |-> Split(header, "-")[2], source |-> Split(header, "-")[3],
     sequence |-> sequence]

\* the reference set of a run: three sequences, one of them 81 residues long
RgsSequencesRead ==
    [h \in {RgsHuman1, RgsHumanLong, RgsFly3} |->
        RgsEntry(h, IF h = RgsHumanLong THEN Repeat("M", 81) ELSE <<"M", "K", "L">>)]

\* the order of the reference file, which is the key order of rgs_sequences
RgsFileOrder == <<RgsHuman1, RgsHumanLong, RgsFly3>>

\* list( d.keys() ) for a dict filled in file order (line 570)
KeysInFileOrder(d) == SelectSeq(RgsFileOrder, LAMBDA h : h \in DOMAIN d)

model_fastas == << <<"g", "/", "h", "u", "m", "a", "n", ".", "a", "a">>,
                   <<"g", "/", "f", "l", "y", ".", "a", "a">> >>

\* a row of a tabular report: query, hit, one further column
Row(query, hit) == query \o Tab \o hit \o Tab \o <<"9", "9">> \o Newline

CommentLine == <<"#", " ", "x", "\n">>
ShortLine == <<"x", "\n">>

LinePool == {Row(RgsHuman1, G7), Row(RgsHuman1, G8), Row(RgsHumanLong, G7),
             Row(RgsFly3, G7), CommentLine, ShortLine}

PathHuman == <<"b", "/", "h", "u", "m", "a", "n">>
PathFly   == <<"b", "/", "f", "l", "y">>
PathOther == <<"b", "/", "m", "o", "u", "s", "e">>

ReportPaths == {PathHuman, PathFly, PathOther}

\* an element of the list of reports: a path, and whether the file exists
ReportPool == {[path |-> p, exists |-> e] : p \in ReportPaths, e \in BOOLEAN}

notMainVars == <<truncVars, mapping_file, filterVars, synthVars, laterVars>>

Init008 ==
    /\ pc = "read_rgs"
    /\ rgs_sequences \in {EmptyDict, RgsSequencesRead}
    /\ header_truncation_map = EmptyDict
    /\ output_files = EmptyDict
    /\ exit_status = None
    /\ MapperIdle
    /\ TruncIdle
    /\ mapping_file = <<>> /\ FilterIdle /\ SynthIdle /\ LaterIdle

\* lines 543-547
MainReadRgs ==
    /\ pc = "read_rgs"
    /\ IF rgs_sequences = EmptyDict
       THEN pc' = "exited" /\ exit_status' = 1
       ELSE pc' = "for_report" /\ UNCHANGED exit_status
    /\ UNCHANGED <<rgs_sequences, header_truncation_map, output_files, mapperVars,
                   notMainVars>>

\* lines 263-282: the loop takes the next report of the list
MapperNextReport ==
    /\ pc = "for_report"
    /\ reports_done < MaxReports
    /\ \E report \in ReportPool :
        /\ blast_report' = report
        /\ reports_done' = reports_done + 1
        /\ IF ReportSkipped(report)
           THEN pc' = "for_report" /\ UNCHANGED exit_status
           ELSE IF ~report.exists
           THEN \* open() of line 282 raises FileNotFoundError
                pc' = "exited" /\ exit_status' = 1
           ELSE pc' = "for_line" /\ UNCHANGED exit_status
    /\ lines_read' = <<>>
    /\ UNCHANGED <<genome_to_rgs, rgs_seen, genome_ids_seen, rgs_sequences,
                   header_truncation_map, output_files, notMainVars>>

\* lines 283-306: the next line of the current report
MapperLine ==
    /\ pc = "for_line"
    /\ Len(lines_read) < MaxRows
    /\ \E raw_line \in LinePool :
        /\ LET st == MapLine(MapperState, raw_line,
                             ReportModelSpecies(blast_report.path, model_species))
           IN /\ genome_to_rgs' = st.genome_to_rgs
              /\ rgs_seen' = st.rgs_seen
              /\ genome_ids_seen' = st.genome_ids_seen
        /\ lines_read' = Append(lines_read, raw_line)
    /\ UNCHANGED <<pc, blast_report, reports_done, mainVars, notMainVars>>

\* line 283: the current report has no further line
MapperEndOfReport ==
    /\ pc = "for_line"
    /\ pc' = "for_report"
    /\ UNCHANGED <<mapperVars, mainVars, notMainVars>>

\* line 323: the list of reports is exhausted
MapperReturn ==
    /\ pc = "for_report"
    /\ pc' = "mapped"
    /\ UNCHANGED <<mapperVars, mainVars, notMainVars>>

NoMappingIgnored(mapping) == FALSE

\* line 563
NoMapping(mapping) == mapping = EmptyDict

\* lines 563-571
MainCheckMapping ==
    /\ pc = "mapped"
    /\ IF NoMapping(genome_to_rgs)
       THEN /\ pc' = "exited"
            /\ exit_status' = 1
            /\ UNCHANGED header_truncation_map
       ELSE /\ pc' = "write_mapping"
            /\ header_truncation_map' =
                   create_truncated_headers_map(KeysInFileOrder(rgs_sequences),
                                                DefaultMaxLength, DefaultTruncateTo)
            /\ UNCHANGED exit_status
    /\ UNCHANGED <<rgs_sequences, output_files, mapperVars, notMainVars>>

WriteArtifact(at, artifact, lines, next) ==
    /\ pc = at
    /\ output_files' = DictSet(output_files, artifact, lines)
    /\ pc' = next
    /\ UNCHANGED <<rgs_sequences, header_truncation_map, exit_status, mapperVars,
                   notMainVars>>

\* line 576
MainWriteMapping ==
    WriteArtifact("write_mapping", "output_mapping",
                  write_mapping_file(genome_to_rgs, header_truncation_map),
                  "write_rgs_fasta")

\* line 577
MainWriteRgsFasta ==
    WriteArtifact("write_rgs_fasta", "output_rgs_fasta",
                  write_rgs_with_genome_ids(rgs_sequences, header_truncation_map),
                  "write_fasta_list")

\* line 578
MainWriteModelList ==
    WriteArtifact("write_fasta_list", "output_fasta_list",
                  create_model_organism_list(model_fastas), "write_truncation_map")

\* lines 581-582
MainWriteTruncationMap ==
    WriteArtifact("write_truncation_map", "truncation_map_file",
                  write_header_truncation_map(header_truncation_map), "finish")

\* lines 584-599: main returns
MainFinish ==
    /\ pc = "finish"
    /\ pc' = "done"
    /\ exit_status' = 0
    /\ UNCHANGED <<rgs_sequences, header_truncation_map, output_files, mapperVars,
                   notMainVars>>

Next008 ==
    \/ MainReadRgs
    \/ MapperNextReport
    \/ MapperLine
    \/ MapperEndOfReport
    \/ MapperReturn
    \/ MainCheckMapping
    \/ MainWriteMapping
    \/ MainWriteRgsFasta
    \/ MainWriteModelList
    \/ MainWriteTruncationMap
    \/ MainFinish

Spec008 == Init008 /\ [][Next008]_vars

(***************************************************************************)
(* Script 013: load_rgs_identifiers and parse_reciprocal_blast_results     *)
(***************************************************************************)
\* lines 81-99 of script 013
NoRgsIdentifiers(lines) == <<>>

RECURSIVE load_rgs_identifiers(_)
load_rgs_identifiers(lines) ==
    IF lines = <<>> THEN <<>>
    ELSE LET parts == Split(Strip(Head(lines)), "\t")
         IN (IF Len(parts) >= 3 THEN <<parts[1], parts[2], parts[3]>>
             ELSE IF Len(parts) >= 2 THEN <<parts[2], parts[1]>>
             ELSE <<>>)
            \o load_rgs_identifiers(Tail(lines))

\* args.rbh_species.split() (script 013, line 274)
rbh_species == model_species

HitIsAlwaysRbhSpecies(hit, species_list) == TRUE

\* lines 142-152 of script 013: whether the hit is to a model species; None
\* when the hit has no second '-'-separated field
HitIsRbhSpecies(hit, species_list) ==
    LET hit_parts == Split(hit, "-")
    IN IF Len(hit_parts) < 2 THEN None
       ELSE LET species_part == hit_parts[2]
                pieces == Split(species_part, "_")
                species_name == IF Contains(species_part, <<"_">>)
                                THEN Lower(pieces[Len(pieces)])
                                ELSE Lower(species_part)
            IN \E i \in 1..Len(species_list) : Contains(species_name, species_list[i])

\* lines 132-160 of script 013: one line of the reciprocal report
ParseReciprocalLine(st, raw_line, identifiers, species_list) ==
    LET parts == Split(Strip(raw_line), "\t")
    IN IF Len(parts) < 2 THEN st
       ELSE LET query == parts[1]
                hit == parts[2]
                is_rbh_species == HitIsRbhSpecies(hit, species_list)
            IN IF Len(Split(hit, "-")) < 2 THEN st
               ELSE IF is_rbh_species
               THEN (IF ~InList(query, identifiers)
                     THEN [keepers |-> Append(st.keepers, query),
                           output_dropped |-> st.output_dropped]
                     ELSE st)
               ELSE [keepers |-> st.keepers,
                     output_dropped |->
                         Append(st.output_dropped, query \o Tab \o hit \o Newline)]

\* lines 204-215 of script 013: the lines of one database FASTA
RECURSIVE ExtractLines(_, _, _)
ExtractLines(lines, keeper_set, writing) ==
    IF lines = <<>> THEN <<>>
    ELSE LET fasta_line == Head(lines)
             is_header == StartsWith(fasta_line, <<">">>)
             write_next == IF is_header
                           THEN Strip(SliceFrom(fasta_line, 1)) \in keeper_set
                           ELSE writing
         IN (IF write_next THEN <<fasta_line>> ELSE <<>>)
            \o ExtractLines(Tail(lines), keeper_set, write_next)

\* lines 186-215 of script 013, for one database FASTA
extract_keeper_sequences(keeper_list, database) ==
    ExtractLines(database, {keeper_list[i] : i \in 1..Len(keeper_list)}, FALSE)

(***************************************************************************)
(* Script 013: a run over a mapping table of script 008 and a reciprocal   *)
(* report                                                                  *)
(***************************************************************************)
MaxRecipRows == 2

\* the truncation map script 008 builds for the reference set (lines 570-571)
RunTruncationMap ==
    create_truncated_headers_map(RgsFileOrder, DefaultMaxLength, DefaultTruncateTo)

\* the mappings create_rgs_genome_mapping can return for the reference set
\* and two genome identifiers: the injective maps, not empty (line 563)
RunMappings ==
    {m \in UNION {[D -> DOMAIN RgsSequencesRead] : D \in (SUBSET {G7, G8}) \ {{}}} :
        \A g1 \in DOMAIN m : \A g2 \in DOMAIN m : g1 # g2 => m[g1] # m[g2]}

\* the mapping tables script 008 can have written
MappingFiles == {write_mapping_file(m, RunTruncationMap) : m \in RunMappings}

Cand1 == <<"c", "-", "M", "u", "s", "_", "m", "u", "s", "-", "1">>

\* hits: a decoy of a modified genome, an ordinary sequence of a species that
\* is no model species, an identifier with no '-', an ordinary sequence whose
\* species field holds the name of a model species
HitDecoy == RgsHuman1
HitMouse == <<"p", "-", "M", "u", "s", "_", "m", "u", "s", "-", "9">>
HitPlain == G8
HitOrdinary == <<"p", "-", "h", "u", "m", "a", "n", "o", "i", "d", "-", "9">>

ReciprocalQueries == {RgsHuman1, RgsHumanLong, RunTruncationMap[RgsHumanLong], G7, Cand1}
ReciprocalHits == {HitDecoy, HitMouse, HitPlain, HitOrdinary}

ReciprocalLinePool == {Row(q, h) : q \in ReciprocalQueries, h \in ReciprocalHits}

not013Vars == <<truncVars, mapperVars, mainVars, synthVars, laterVars>>

\* the project database of the run, and the keeper FASTA of an earlier run
ProjectDatabase == <<<<">">> \o Cand1 \o Newline, <<"M", "K", "L", "\n">>,
                     <<">">> \o G7 \o <<" ", "\n">>, <<"A", "C", "\n">>>>
StaleKeeperFasta == <<<<">">> \o G7 \o Newline, <<"A", "C", "\n">>>>

Init013 ==
    /\ pc = "load_rgs_identifiers"
    /\ mapping_file \in MappingFiles
    /\ output_fasta_013 \in {None, StaleKeeperFasta}
    /\ rgs_identifiers = <<>>
    /\ recip_lines_read = <<>>
    /\ keepers = <<>>
    /\ output_dropped = <<>>
    /\ TruncIdle /\ MapperIdle /\ MainIdle /\ SynthIdle /\ LaterIdle

\* line 305 of script 013
Filter013Load ==
    /\ pc = "load_rgs_identifiers"
    /\ rgs_identifiers' = load_rgs_identifiers(mapping_file)
    /\ pc' = "parse_reciprocal"
    /\ UNCHANGED <<mapping_file, recip_lines_read, keepers, output_dropped,
                   output_fasta_013, not013Vars>>

\* lines 132-160 of script 013: the next line of the report
Filter013Line ==
    /\ pc = "parse_reciprocal"
    /\ Len(recip_lines_read) < MaxRecipRows
    /\ \E raw_line \in ReciprocalLinePool :
        /\ LET st == ParseReciprocalLine(
                         [keepers |-> keepers, output_dropped |-> output_dropped],
                         raw_line, rgs_identifiers, rbh_species)
           IN keepers' = st.keepers /\ output_dropped' = st.output_dropped
        /\ recip_lines_read' = Append(recip_lines_read, raw_line)
    /\ UNCHANGED <<pc, mapping_file, rgs_identifiers, output_fasta_013, not013Vars>>

\* line 165 of script 013: the report has no further line
Filter013Return ==
    /\ pc = "parse_reciprocal"
    /\ pc' = "parsed"
    /\ UNCHANGED <<mapping_file, filterVars, not013Vars>>

NoKeepersIgnored(keeper_list) == FALSE

\* line 317 of script 013
NoKeepers(keeper_list) == keeper_list = <<>>

\* lines 317-338 of script 013: without a keeper main touches the keeper
\* FASTA and exits with status 0; else the keepers are extracted
Main013Finish ==
    /\ pc = "parsed"
    /\ IF NoKeepers(keepers)
       THEN /\ output_fasta_013' = IF output_fasta_013 = None THEN <<>>
                                   ELSE output_fasta_013
            /\ pc' = "exited"
       ELSE /\ output_fasta_013' = extract_keeper_sequences(keepers, ProjectDatabase)
            /\ pc' = "done"
    /\ exit_status' = 0
    /\ UNCHANGED <<mapping_file, rgs_identifiers, recip_lines_read, keepers,
                   output_dropped, truncVars, mapperVars, rgs_sequences,
                   header_truncation_map, output_files, synthVars, laterVars>>

Next013 == Filter013Load \/ Filter013Line \/ Filter013Return \/ Main013Finish

Spec013 == Init013 /\ [][Next013]_vars

(***************************************************************************)
(* Script 009: read_mapping_file and create_modified_genome                *)
(***************************************************************************)
\* lines 150-172 of script 009
RECURSIVE read_mapping_file(_, _)
read_mapping_file(lines, dicts) ==
    IF lines = <<>> THEN dicts
    ELSE LET line == Strip(Head(lines))
             parts == Split(line, "\t")
             next == IF line = <<>> THEN dicts
                     ELSE IF Len(parts) >= 3
                     THEN [truncated |-> DictSet(dicts.truncated, parts[1], parts[2]),
                           full |-> DictSet(dicts.full, parts[1], parts[3])]
                     ELSE IF Len(parts) >= 2
                     THEN [truncated |-> DictSet(dicts.truncated, parts[1], parts[2]),
                           full |-> DictSet(dicts.full, parts[1], parts[2])]
                     ELSE dicts
         IN read_mapping_file(Tail(lines), next)

OriginalLineAlwaysSkipped(replacing) == TRUE

OriginalLineNeverSkipped(replacing) == FALSE

\* line 286 of script 009: the residue line of the genome is not copied
OriginalLineSkipped(replacing) == replacing

\* lines 245-289 of script 009: one line of the genome file
SynthLine(st, line, truncated_headers, full_headers, sequences) ==
    IF StartsWith(line, <<">">>)
    THEN LET genome_id == Strip(SliceFrom(line, 1))
             rgs_full_header == full_headers[genome_id]
             rgs_truncated_header == DictGet(truncated_headers, genome_id, rgs_full_header)
             replacement_sequence == DictGet(sequences, rgs_full_header, None)
         IN IF genome_id \in DOMAIN full_headers
               /\ rgs_full_header \in DOMAIN sequences
               /\ replacement_sequence # <<>>
            THEN [st EXCEPT !.output_fasta =
                                @ \o <<<<">">> \o rgs_truncated_header \o Newline>>
                                  \o Wrap80(replacement_sequence),
                            !.current_genome_id = genome_id,
                            !.sequences_replaced = @ + 1,
                            !.writing_replacement = TRUE]
            ELSE [st EXCEPT !.output_fasta = Append(@, line),
                            !.current_genome_id = genome_id,
                            !.sequences_kept = @ + 1,
                            !.writing_replacement = FALSE]
    ELSE IF OriginalLineSkipped(st.writing_replacement) THEN st
    ELSE [st EXCEPT !.output_fasta = Append(@, line)]

(***************************************************************************)
(* Script 009: a run over a mapping table of script 008 and one genome     *)
(***************************************************************************)
MaxGenomeLines == 4

G9 == <<"G", "9">>

\* the reference file as script 009 reads it (lines 98-116): complete, or with
\* one sequence missing and one without residues
RgsComplete009 == [h \in DOMAIN RgsSequencesRead |-> RgsSequencesRead[h].sequence]
RgsDamaged009 ==
    [h \in {RgsHumanLong, RgsFly3} |-> IF h = RgsFly3 THEN <<>> ELSE Repeat("M", 81)]

\* the lines of a genome file; a line without newline is the last of the file
GenomeLinePool == {<<">">> \o G7 \o Newline, <<">">> \o G8 \o Newline,
                   <<">">> \o G9 \o Newline, <<">">> \o G8,
                   <<"M", "K", "L", "\n">>, <<"A", "C">>}

\* a mapping table in the old format of two columns (lines 167-172)
LegacyMappingFile == <<G7 \o Tab \o RgsHuman1 \o Newline, Newline,
                       G8 \o Tab \o RgsHumanLong \o Newline>>

\* a run of script 008 on a reference set with a header of 49 characters and
\* one of 51 characters that share their first 45 characters: the mapping
\* table main writes (lines 570-576) and the reference file
CloseMappingFile ==
    write_mapping_file((G7 :> HPass49) @@ (G8 :> RgsHumanLong),
                       create_truncated_headers_map(<<HPass49, RgsHumanLong>>,
                                                    DefaultMaxLength, DefaultTruncateTo))
RgsClose009 == (HPass49 :> <<"M", "K", "L">>) @@ (RgsHumanLong :> <<"A", "C">>)

not009Vars == <<truncVars, mapperVars, mainVars, filterVars, laterVars>>

SynthState == [output_fasta |-> output_fasta, current_genome_id |-> current_genome_id,
               writing_replacement |-> writing_replacement,
               sequences_replaced |-> sequences_replaced,
               sequences_kept |-> sequences_kept]

Init009 ==
    /\ pc = "read_009"
    /\ \/ /\ mapping_file \in MappingFiles \cup {LegacyMappingFile}
          /\ rgs_sequences_009 \in {RgsComplete009, RgsDamaged009}
       \/ /\ mapping_file = CloseMappingFile
          /\ rgs_sequences_009 = RgsClose009
    /\ genome_identifiers___truncated_rgs_headers = EmptyDict
    /\ genome_identifiers___full_rgs_headers = EmptyDict
    /\ genome_lines_read = <<>>
    /\ output_fasta = <<>>
    /\ current_genome_id = None
    /\ writing_replacement = FALSE
    /\ sequences_replaced = 0
    /\ sequences_kept = 0
    /\ TruncIdle /\ MapperIdle /\ MainIdle /\ FilterIdle /\ LaterIdle

\* lines 377-392 of script 009: the inputs are read; main stops without them
Synth009Read ==
    /\ pc = "read_009"
    /\ LET dicts == read_mapping_file(mapping_file,
                                      [truncated |-> EmptyDict, full |-> EmptyDict])
       IN /\ genome_identifiers___truncated_rgs_headers' = dicts.truncated
          /\ genome_identifiers___full_rgs_headers' = dicts.full
          /\ pc' = IF rgs_sequences_009 = EmptyDict \/ dicts.full = EmptyDict
                   THEN "exited" ELSE "for_genome_line"
    /\ UNCHANGED <<mapping_file, rgs_sequences_009, genome_lines_read, output_fasta,
                   current_genome_id, writing_replacement, sequences_replaced,
                   sequences_kept, not009Vars>>

\* lines 244-289 of script 009: the next line of the genome file
Synth009Line ==
    /\ pc = "for_genome_line"
    /\ Len(genome_lines_read) < MaxGenomeLines
    /\ genome_lines_read # <<>> =>
           LET last == genome_lines_read[Len(genome_lines_read)]
           IN last[Len(last)] = "\n"
    /\ \E line \in GenomeLinePool :
        /\ LET st == SynthLine(SynthState, line,
                               genome_identifiers___truncated_rgs_headers,
                               genome_identifiers___full_rgs_headers, rgs_sequences_009)
           IN /\ output_fasta' = st.output_fasta
              /\ current_genome_id' = st.current_genome_id
              /\ writing_replacement' = st.writing_replacement
              /\ sequences_replaced' = st.sequences_replaced
              /\ sequences_kept' = st.sequences_kept
        /\ genome_lines_read' = Append(genome_lines_read, line)
    /\ UNCHANGED <<pc, mapping_file, genome_identifiers___truncated_rgs_headers,
                   genome_identifiers___full_rgs_headers, rgs_sequences_009, not009Vars>>

\* line 296 of script 009: the genome file has no further line
Synth009Return ==
    /\ pc = "for_genome_line"
    /\ pc' = "modified_genome_written"
    /\ UNCHANGED <<mapping_file, synthVars, not009Vars>>

Next009 == Synth009Read \/ Synth009Line \/ Synth009Return

Spec009 == Init009 /\ [][Next009]_vars

(***************************************************************************)
(* Script 014: load_species_keeper_list and filter_sequences_by_species    *)
(***************************************************************************)
\* lines 72-78 of script 014
load_species_keeper_list(lines) ==
    {Strip(lines[i]) : i \in 1..Len(lines)} \ {<<>>}

IsKeeperWholeHeader(header, species_set) == header \in species_set

\* lines 119-123 of script 014
IsKeeper(header, species_set) == \E species \in species_set : Contains(header, species)

\* lines 113-134 of script 014: one line of the input FASTA
FilterLine(st, line, species_set) ==
    IF StartsWith(line, <<">">>)
    THEN LET header == Strip(SliceFrom(line, 1))
             is_keeper == IsKeeper(header, species_set)
         IN IF is_keeper
            THEN [st EXCEPT !.should_write = TRUE,
                            !.output = Append(@, line),
                            !.kept_count = @ + 1]
            ELSE [st EXCEPT !.should_write = FALSE,
                            !.dropped_count = @ + 1]
    ELSE IF st.should_write THEN [st EXCEPT !.output = Append(@, line)]
    ELSE st

\* Path.touch: creates an empty file, leaves an existing file as it is
Touch(file) == IF file = None THEN <<>> ELSE file

(***************************************************************************)
(* Script 014: a run over one allow-list and one input FASTA               *)
(***************************************************************************)
MaxFastaLines == 4

CandHomo == <<">", "c", "-", "H", "o", "m", "o", "_", "s", "a", "p", "-", "1", "\n">>
CandMus  == <<">", "c", "-", "M", "u", "s", "_", "m", "u", "s", "-", "2", " ", "\n">>
FragmentHomo == <<"H", "o", "m", "o", "_", "s", "a", "p">>
FragmentMus  == <<"M", "u", "s">>
FragmentWhole == <<"c", "-", "M", "u", "s", "_", "m", "u", "s", "-", "2">>

\* allow-list files: no line, a blank line only, one fragment, two fragments
\* with surrounding blanks, a fragment that is a whole header
KeeperListFiles == {<<>>, <<Newline>>, <<FragmentHomo \o Newline>>,
                    <<<<" ">> \o FragmentMus \o Newline, Newline, FragmentHomo>>,
                    <<FragmentWhole \o Newline>>}

\* the lines of an input FASTA; a line without newline is the last of the file
FastaLinePool == {CandHomo, CandMus, <<"M", "K", "L", "\n">>, <<"A", "C">>}

\* the output path before the run: no file, an empty file, the file of an earlier run
StaleOutput == <<CandMus, <<"M", "K", "L", "\n">>>>
OutputBefore == {None, <<>>, StaleOutput}

stage2Vars == <<truncVars, mapperVars, mapping_file, filterVars, synthVars>>

Stage2Idle == TruncIdle /\ MapperIdle /\ mapping_file = <<>> /\ FilterIdle /\ SynthIdle

notExitVars == <<rgs_sequences, header_truncation_map, output_files>>

not014Vars == <<stage2Vars, notExitVars, remapVars, assembleVars, validateVars, searchVars>>

FilterState == [output |-> output_fasta_014, should_write |-> should_write,
                kept_count |-> kept_count, dropped_count |-> dropped_count]

\* a line may follow only a line that ends with a newline
MoreLines(lines_so_far) ==
    lines_so_far # <<>> =>
        LET last == lines_so_far[Len(lines_so_far)] IN last[Len(last)] = "\n"

Init014 ==
    /\ pc = "load_species_keeper_list"
    /\ species_keeper_list \in KeeperListFiles
    /\ output_fasta_014 \in OutputBefore
    /\ keeper_species = {}
    /\ input_fasta_014 = <<>>
    /\ should_write = FALSE
    /\ kept_count = 0
    /\ dropped_count = 0
    /\ Stage2Idle /\ MainIdle /\ RemapIdle /\ AssembleIdle
    /\ ValidateIdle
    /\ SearchIdle

\* lines 194-201 of script 014: the allow-list is loaded; without a fragment
\* main touches the output and exits with status 0
Species014Load ==
    /\ pc = "load_species_keeper_list"
    /\ keeper_species' = load_species_keeper_list(species_keeper_list)
    /\ IF keeper_species' = {}
       THEN /\ output_fasta_014' = Touch(output_fasta_014)
            /\ exit_status' = 0
            /\ pc' = "exited"
       ELSE /\ pc' = "open_014"
            /\ UNCHANGED <<output_fasta_014, exit_status>>
    /\ UNCHANGED <<species_keeper_list, input_fasta_014, should_write, kept_count,
                   dropped_count, not014Vars>>

\* lines 104-110 of script 014: the output is opened for writing
Species014Open ==
    /\ pc = "open_014"
    /\ output_fasta_014' = <<>>
    /\ should_write' = FALSE
    /\ kept_count' = 0
    /\ dropped_count' = 0
    /\ pc' = "for_line_014"
    /\ UNCHANGED <<species_keeper_list, keeper_species, input_fasta_014, exit_status,
                   not014Vars>>

\* lines 112-134 of script 014: the next line of the input FASTA
Species014Line ==
    /\ pc = "for_line_014"
    /\ Len(input_fasta_014) < MaxFastaLines
    /\ MoreLines(input_fasta_014)
    /\ \E line \in FastaLinePool :
        /\ LET st == FilterLine(FilterState, line, keeper_species)
           IN /\ output_fasta_014' = st.output
              /\ should_write' = st.should_write
              /\ kept_count' = st.kept_count
              /\ dropped_count' = st.dropped_count
        /\ input_fasta_014' = Append(input_fasta_014, line)
    /\ UNCHANGED <<pc, species_keeper_list, keeper_species, exit_status, not014Vars>>

\* lines 136-140 and 212-217 of script 014: end of the input, end of main
Species014Return ==
    /\ pc = "for_line_014"
    /\ pc' = "done"
    /\ exit_status' = 0
    /\ UNCHANGED <<speciesVars, not014Vars>>

Next014 == Species014Load \/ Species014Open \/ Species014Line \/ Species014Return

Spec014 == Init014 /\ [][Next014]_vars

(***************************************************************************)
(* Script 015: load_identifier_mapping and remap_fasta_identifiers         *)
(***************************************************************************)
\* lines 90-104 of script 015
RECURSIVE load_identifier_mapping(_, _)
load_identifier_mapping(lines, table) ==
    IF lines = <<>> THEN table
    ELSE LET line == Strip(Head(lines))
             parts == Split(line, "\t")
         IN load_identifier_mapping(Tail(lines),
                IF line # <<>> /\ Len(parts) = 2
                THEN DictSet(table, parts[1], parts[2]) ELSE table)

ShortIdUnstripped(line) == SliceFrom(line, 1)

\* line 143 of script 015
ShortId(line) == Strip(SliceFrom(line, 1))

\* lines 141-159 of script 015: one line of the candidate FASTA
RemapLine(st, line, table) ==
    IF StartsWith(line, <<">">>)
    THEN LET short_id == ShortId(line)
         IN IF short_id \in DOMAIN table
            THEN [st EXCEPT !.sequences_processed = @ + 1,
                            !.output = Append(@, <<">">> \o table[short_id] \o Newline),
                            !.sequences_remapped = @ + 1]
            ELSE [st EXCEPT !.sequences_processed = @ + 1,
                            !.output = Append(@, line),
                            !.sequences_not_found = @ + 1]
    ELSE [st EXCEPT !.output = Append(@, line)]

(***************************************************************************)
(* Script 015: a run over one table and one candidate FASTA                *)
(***************************************************************************)
MaxCandidateLines == 4

IdHomo == <<"c", "-", "H", "o", "m", "o", "_", "s", "a", "p", "-", "1">>
IdMus  == <<"c", "-", "M", "u", "s", "_", "m", "u", "s", "-", "2">>
CanonicalHomo == <<"g", "_", "A", "-", "n", "_", "H", "o", "m", "o">>
CanonicalMus  == <<"g", "_", "B", "-", "n", "_", "M", "u", "s">>

\* candidate-to-canonical tables: no row, one row, two rows with a blank
\* line and a row of three columns that is skipped
IdentifierMappingFiles ==
    {<<>>,
     <<IdHomo \o Tab \o CanonicalHomo \o Newline>>,
     <<IdHomo \o Tab \o CanonicalHomo \o Newline, Newline,
       IdMus \o Tab \o CanonicalMus \o Newline,
       G7 \o Tab \o CanonicalMus \o Tab \o CanonicalMus \o Newline>>}

not015Vars == <<stage2Vars, notExitVars, speciesVars, assembleVars, validateVars, searchVars>>

RemapState == [output |-> output_fasta_015, sequences_processed |-> sequences_processed,
               sequences_remapped |-> sequences_remapped,
               sequences_not_found |-> sequences_not_found]

Init015 ==
    /\ pc = "load_identifier_mapping"
    /\ identifier_mapping_file \in IdentifierMappingFiles
    /\ short_ids___gigantic_ids = EmptyDict
    /\ input_fasta_015 = <<>>
    /\ output_fasta_015 = <<>>
    /\ sequences_processed = 0
    /\ sequences_remapped = 0
    /\ sequences_not_found = 0
    /\ Stage2Idle /\ MainIdle /\ SpeciesIdle /\ AssembleIdle
    /\ ValidateIdle
    /\ SearchIdle

\* lines 234 and 130-138 of script 015: the table is loaded, the output opened
Remap015Load ==
    /\ pc = "load_identifier_mapping"
    /\ short_ids___gigantic_ids' = load_identifier_mapping(identifier_mapping_file, EmptyDict)
    /\ output_fasta_015' = <<>>
    /\ pc' = "for_line_015"
    /\ UNCHANGED <<identifier_mapping_file, input_fasta_015, sequences_processed,
                   sequences_remapped, sequences_not_found, exit_status, not015Vars>>

\* lines 140-159 of script 015: the next line of the candidate FASTA
Remap015Line ==
    /\ pc = "for_line_015"
    /\ Len(input_fasta_015) < MaxCandidateLines
    /\ MoreLines(input_fasta_015)
    /\ \E line \in FastaLinePool :
        /\ LET st == RemapLine(RemapState, line, short_ids___gigantic_ids)
           IN /\ output_fasta_015' = st.output
              /\ sequences_processed' = st.sequences_processed
              /\ sequences_remapped' = st.sequences_remapped
              /\ sequences_not_found' = st.sequences_not_found
        /\ input_fasta_015' = Append(input_fasta_015, line)
    /\ UNCHANGED <<pc, identifier_mapping_file, short_ids___gigantic_ids, exit_status,
                   not015Vars>>

\* lines 161 and 245-264 of script 015: end of the input; main stops with
\* status 1 when no sequence was remapped
Remap015Finish ==
    /\ pc = "for_line_015"
    /\ IF sequences_remapped = 0
       THEN pc' = "exited" /\ exit_status' = 1
       ELSE pc' = "done" /\ exit_status' = 0
    /\ UNCHANGED <<remapVars, not015Vars>>

Next015 == Remap015Load \/ Remap015Line \/ Remap015Finish

Spec015 == Init015 /\ [][Next015]_vars

(***************************************************************************)
(* Script 016: the two tables and remap_rgs_sequences                      *)
(***************************************************************************)
\* a dict in insertion order: assigning to a key that is present keeps its place
OrderedKeys(d) == [i \in 1..Len(d) |-> d[i][1]]

OrderedHas(d, k) == \E i \in 1..Len(d) : d[i][1] = k

OrderedGet(d, k) == d[CHOOSE i \in 1..Len(d) : d[i][1] = k][2]

OrderedSet(d, k, v) ==
    IF OrderedHas(d, k)
    THEN [i \in 1..Len(d) |-> IF d[i][1] = k THEN <<k, v>> ELSE d[i]]
    ELSE Append(d, <<k, v>>)

\* lines 78-101 of script 016; a missing file gives the empty dict
RECURSIVE load_rgs_to_cgs_map(_, _)
load_rgs_to_cgs_map(lines, d) ==
    IF lines = None \/ lines = <<>> THEN d
    ELSE LET line == Strip(Head(lines))
             parts == Split(line, "\t")
         IN load_rgs_to_cgs_map(Tail(lines),
                IF line # <<>> /\ ~StartsWith(line, <<"#">>) /\ Len(parts) >= 3
                THEN OrderedSet(OrderedSet(d, parts[2], parts[1]), parts[3], parts[1])
                ELSE d)

\* lines 123-142 of script 016
RECURSIVE load_cgs_to_gigantic_map(_, _)
load_cgs_to_gigantic_map(lines, d) ==
    IF lines = <<>> THEN d
    ELSE LET line == Strip(Head(lines))
             parts == Split(line, "\t")
         IN load_cgs_to_gigantic_map(Tail(lines),
                IF line # <<>> /\ ~StartsWith(line, <<"#">>) /\ Len(parts) >= 2
                THEN DictSet(d, parts[1], parts[2]) ELSE d)

\* line 177 of script 016: line.rstrip( '\n' )
RECURSIVE RStripNewline(_)
RStripNewline(s) ==
    IF s # <<>> /\ s[Len(s)] = "\n" THEN RStripNewline(SubSeq(s, 1, Len(s) - 1)) ELSE s

\* lines 189-199 of script 016: the exact key, else the first key in insertion
\* order that is a prefix of the header or that the header is a prefix of
CgsIdOf(header, d) ==
    IF OrderedHas(d, header) THEN OrderedGet(d, header)
    ELSE LET partial == {i \in 1..Len(d) :
                            StartsWith(header, d[i][1]) \/ StartsWith(d[i][1], header)}
         IN IF partial = {} THEN None
            ELSE d[CHOOSE i \in partial : \A j \in partial : i <= j][2]

LastSequenceForgotten(st) == st.remapped_sequences

\* lines 181-183 and 220-222 of script 016: the sequence read so far is saved
SavedSequences(st) ==
    IF st.current_header # None
    THEN Append(st.remapped_sequences, <<st.current_header, Flatten(st.current_sequence_parts)>>)
    ELSE st.remapped_sequences

\* lines 177-217 of script 016: one line of the reference FASTA
RemapRgsLine(st, raw_line, d, table) ==
    LET line == RStripNewline(raw_line)
    IN IF StartsWith(line, <<">">>)
       THEN LET header == SliceFrom(line, 1)
                cgs_id == CgsIdOf(header, d)
                resolved == cgs_id # None /\ cgs_id # <<>> /\ cgs_id \in DOMAIN table
            IN [remapped_sequences |-> SavedSequences(st),
                current_header |-> IF resolved THEN table[cgs_id] ELSE header,
                current_sequence_parts |-> <<>>,
                mapped_count |-> st.mapped_count + (IF resolved THEN 1 ELSE 0),
                unmapped_count |-> st.unmapped_count + (IF resolved THEN 0 ELSE 1)]
       ELSE [st EXCEPT !.current_sequence_parts = Append(@, line)]

\* lines 246-248 of script 016
count_sequences_in_fasta(lines) ==
    Cardinality({i \in 1..Len(lines) : StartsWith(lines[i], <<">">>)})

\* lines 362-364 of script 016
RECURSIVE WriteRemapped(_)
WriteRemapped(seqs) ==
    IF seqs = <<>> THEN <<>>
    ELSE <<<<">">> \o Head(seqs)[1] \o Newline \o Head(seqs)[2] \o Newline>>
         \o WriteRemapped(Tail(seqs))

(***************************************************************************)
(* Script 016: a run over the two tables, a reference FASTA and the        *)
(* candidate FASTA of script 015                                           *)
(***************************************************************************)
MaxRgsLines == 4

RgsHuman10 == RgsHuman1 \o <<"0">>

\* the mapping table of script 008: absent, or with one or two mapped references
RgsMapFiles ==
    {None,
     <<G7 \o Tab \o RgsHuman1 \o Tab \o RgsHuman1 \o Newline>>,
     <<<<"#">> \o G7 \o Newline,
       G8 \o Tab \o RgsFly3 \o Tab \o RgsFly3 \o Newline,
       G7 \o Tab \o RgsHuman1 \o Tab \o RgsHuman1 \o Newline>>}

CgsMappingFiles ==
    {<<G7 \o Tab \o CanonicalHomo \o Newline>>,
     <<G7 \o Tab \o CanonicalHomo \o Newline, Newline,
       G8 \o Tab \o CanonicalMus \o Newline>>}

\* the candidate FASTA: no sequence, one, or two with a last line without newline
CgsFiles ==
    {<<>>,
     <<<<">">> \o CanonicalHomo \o Newline, <<"M", "K", "L", "\n">>>>,
     <<<<">">> \o CanonicalHomo \o Newline, <<"M", "K", "L", "\n">>, CandMus, <<"A", "C">>>>}

RgsLinePool == {<<">">> \o RgsHuman1 \o Newline, <<">">> \o RgsHuman10 \o Newline,
                <<">">> \o RgsFly3 \o Newline, <<"M", "K", "L", "\n">>, <<"A", "C">>}

not016Vars == <<stage2Vars, notExitVars, speciesVars, remapVars, validateVars, searchVars>>

RemapRgsState == [remapped_sequences |-> remapped_sequences,
                  current_header |-> current_header,
                  current_sequence_parts |-> current_sequence_parts,
                  mapped_count |-> mapped_count, unmapped_count |-> unmapped_count]

Init016 ==
    /\ pc = "load_maps_016"
    /\ rgs_map_file \in RgsMapFiles
    /\ cgs_mapping_file \in CgsMappingFiles
    /\ cgs_file \in CgsFiles
    /\ rgs_headers___cgs_ids = <<>>
    /\ cgs_ids___gigantic_ids = EmptyDict
    /\ rgs_file_read = <<>>
    /\ remapped_sequences = <<>>
    /\ current_header = None
    /\ current_sequence_parts = <<>>
    /\ unmapped_count = 0
    /\ mapped_count = 0
    /\ output_file_016 = <<>>
    /\ total_sequences = None
    /\ Stage2Idle /\ MainIdle /\ SpeciesIdle /\ RemapIdle
    /\ ValidateIdle
    /\ SearchIdle

\* lines 342-343 of script 016
Assemble016Load ==
    /\ pc = "load_maps_016"
    /\ rgs_headers___cgs_ids' = load_rgs_to_cgs_map(rgs_map_file, <<>>)
    /\ cgs_ids___gigantic_ids' = load_cgs_to_gigantic_map(cgs_mapping_file, EmptyDict)
    /\ pc' = "for_rgs_line"
    /\ UNCHANGED <<rgs_map_file, cgs_mapping_file, cgs_file, rgs_file_read,
                   remapped_sequences, current_header, current_sequence_parts,
                   unmapped_count, mapped_count, output_file_016, total_sequences,
                   exit_status, not016Vars>>

\* lines 176-217 of script 016: the next line of the reference FASTA
Assemble016RgsLine ==
    /\ pc = "for_rgs_line"
    /\ Len(rgs_file_read) < MaxRgsLines
    /\ MoreLines(rgs_file_read)
    /\ \E line \in RgsLinePool :
        /\ LET st == RemapRgsLine(RemapRgsState, line, rgs_headers___cgs_ids,
                                  cgs_ids___gigantic_ids)
           IN /\ remapped_sequences' = st.remapped_sequences
              /\ current_header' = st.current_header
              /\ current_sequence_parts' = st.current_sequence_parts
              /\ mapped_count' = st.mapped_count
              /\ unmapped_count' = st.unmapped_count
        /\ rgs_file_read' = Append(rgs_file_read, line)
    /\ UNCHANGED <<pc, rgs_map_file, cgs_mapping_file, cgs_file, rgs_headers___cgs_ids,
                   cgs_ids___gigantic_ids, output_file_016, total_sequences, exit_status,
                   not016Vars>>

\* lines 219-227 of script 016: the last sequence is saved, the list returned
Assemble016RgsReturn ==
    /\ pc = "for_rgs_line"
    /\ remapped_sequences' = SavedSequences(RemapRgsState)
    /\ pc' = "write_016"
    /\ UNCHANGED <<rgs_map_file, cgs_mapping_file, cgs_file, rgs_headers___cgs_ids,
                   cgs_ids___gigantic_ids, rgs_file_read, current_header,
                   current_sequence_parts, unmapped_count, mapped_count, output_file_016,
                   total_sequences, exit_status, not016Vars>>

\* lines 357-380 of script 016: the assembled file is written, main ends
Assemble016Write ==
    /\ pc = "write_016"
    /\ output_file_016' = WriteRemapped(remapped_sequences) \o cgs_file
    /\ total_sequences' = Len(remapped_sequences) + count_sequences_in_fasta(cgs_file)
    /\ exit_status' = 0
    /\ pc' = "done"
    /\ UNCHANGED <<rgs_map_file, cgs_mapping_file, cgs_file, rgs_headers___cgs_ids,
                   cgs_ids___gigantic_ids, rgs_file_read, remapped_sequences,
                   current_header, current_sequence_parts, unmapped_count, mapped_count,
                   not016Vars>>

Next016 == Assemble016Load \/ Assemble016RgsLine \/ Assemble016RgsReturn
           \/ Assemble016Write

Spec016 == Init016 /\ [][Next016]_vars

(***************************************************************************)
(* Script 001: parse_rgs_header and validate_headers                       *)
(***************************************************************************)
\* str.isdigit for the characters a header of the runs holds
IsDigit(s) == s # <<>> /\ \A i \in 1..Len(s) : InList(s[i], Digits)

\* int( count_str ) for a string of decimal digits
RECURSIVE IntOf(_)
IntOf(s) ==
    IF s = <<>> THEN 0
    ELSE 10 * IntOf(SubSeq(s, 1, Len(s) - 1))
         + (CHOOSE d \in 0..9 : Digits[d + 1] = s[Len(s)])

\* line 157 of script 001: a header needs four '-'-separated parts
EnoughParts(parts) == Len(parts) >= 4

\* lines 153-175 of script 001
parse_rgs_header(header) ==
    LET parts == Split(header, "-")
        rgs_part == parts[1]
        count_str == SliceFrom(rgs_part, 3)
    IN IF ~EnoughParts(parts)
       THEN [is_valid |-> FALSE]
       ELSE IF ~StartsWith(rgs_part, <<"r", "g", "s">>) \/ Len(rgs_part) <= 3
       THEN [is_valid |-> FALSE]
       ELSE IF ~IsDigit(count_str)
       THEN [is_valid |-> FALSE]
       ELSE [is_valid |-> TRUE,
             sequence_count |-> IntOf(count_str),
             species_short_name |-> parts[2]]

\* lines 214-233 of script 001: one line of the reference FASTA
ValidateLine(st, line, line_number) ==
    IF ~StartsWith(line, <<">">>) THEN st
    ELSE LET header == Strip(SliceFrom(line, 1))
             parsed == parse_rgs_header(header)
             counted == [st.statistics EXCEPT !.total_sequences = @ + 1]
         IN IF parsed.is_valid
            THEN [all_valid |-> st.all_valid,
                  statistics |->
                      [counted EXCEPT
                          !.valid_headers = @ + 1,
                          !.species_found = @ \cup {parsed.species_short_name},
                          !.sequence_counts_in_headers = @ \cup {parsed.sequence_count}],
                  sequence_ids |-> Append(st.sequence_ids, header)]
            ELSE [all_valid |-> FALSE,
                  statistics |->
                      [counted EXCEPT
                          !.invalid_headers = @ + 1,
                          !.header_issues =
                              Append(@, <<"Invalid header format", line_number, header>>)],
                  sequence_ids |-> st.sequence_ids]

\* lines 256-257 of script 001: the identifiers that occur more than once,
\* in the order of their first occurrence
Duplicates(ids) ==
    LET first == {i \in 1..Len(ids) :
                     /\ \A j \in 1..(i - 1) : ids[j] # ids[i]
                     /\ \E j \in (i + 1)..Len(ids) : ids[j] = ids[i]}
        RECURSIVE InOrder(_)
        InOrder(i) == IF i > Len(ids) THEN <<>>
                      ELSE (IF i \in first THEN <<ids[i]>> ELSE <<>>) \o InOrder(i + 1)
    IN InOrder(1)

\* lines 235-269 of script 001: the checks after the pass over the file
ValidateChecks(st) ==
    LET counts == st.statistics.sequence_counts_in_headers
        inconsistent == Cardinality(counts) > 1
        mismatch == /\ Cardinality(counts) = 1
                    /\ (CHOOSE n \in counts : TRUE) # st.statistics.total_sequences
        duplicates == Duplicates(st.sequence_ids)
        issues1 == IF inconsistent
                   THEN Append(st.statistics.header_issues,
                               <<"Inconsistent sequence counts in headers", counts>>)
                   ELSE st.statistics.header_issues
        issues2 == IF mismatch
                   THEN Append(issues1, <<"Sequence count mismatch",
                                          CHOOSE n \in counts : TRUE,
                                          st.statistics.total_sequences>>)
                   ELSE issues1
    IN [all_valid |-> st.all_valid /\ ~inconsistent /\ ~mismatch /\ duplicates = <<>>,
        statistics |-> [st.statistics EXCEPT !.header_issues = issues2,
                                             !.duplicate_ids = duplicates],
        sequence_ids |-> st.sequence_ids]

(***************************************************************************)
(* Script 001: a run from the call of validate_headers (line 448), reached *)
(* with a valid file name, to the end of main                              *)
(***************************************************************************)
MaxValidateLines == 3

Rgs2Human == <<">", "r", "g", "s", "2", "-", "h", "u", "m", "a", "n", "-", "x", "-", "1", "\n">>
Rgs2Fly == <<">", "r", "g", "s", "2", "-", "f", "l", "y", "-", "x", "-", "2", " ", "\n">>
Rgs1Fly == <<">", "r", "g", "s", "1", "-", "f", "l", "y", "-", "x", "-", "2", "\n">>
RgsNoCount == <<">", "r", "g", "s", "-", "f", "l", "y", "-", "x", "-", "3", "\n">>
ThreeParts == <<">", "r", "g", "s", "2", "-", "f", "l", "y", "-", "4", "\n">>

ValidateLinePool ==
    {Rgs2Human, Rgs2Fly, Rgs1Fly, RgsNoCount, ThreeParts, <<"M", "K", "L", "\n">>}

not001Vars == <<stage2Vars, notExitVars, speciesVars, remapVars, assembleVars, searchVars>>

Init001 ==
    /\ pc = "validate_headers"
    /\ ValidateIdle
    /\ Stage2Idle /\ MainIdle /\ SpeciesIdle /\ RemapIdle /\ AssembleIdle
    /\ SearchIdle

\* lines 213-233: the pass reads one more line of the file
Validate001Line ==
    /\ pc = "validate_headers"
    /\ Len(input_fasta_001) < MaxValidateLines
    /\ MoreLines(input_fasta_001)
    /\ \E line \in ValidateLinePool :
          LET st == ValidateLine([all_valid |-> all_valid, statistics |-> statistics,
                                  sequence_ids |-> sequence_ids],
                                 line, Len(input_fasta_001) + 1)
          IN /\ input_fasta_001' = Append(input_fasta_001, line)
             /\ all_valid' = st.all_valid
             /\ statistics' = st.statistics
             /\ sequence_ids' = st.sequence_ids
    /\ UNCHANGED <<pc, headers_valid, output_file_001, validation_result, exit_status,
                   not001Vars>>

\* lines 235-269: the end of the file; the checks, and the return to main
Validate001Return ==
    /\ pc = "validate_headers"
    /\ LET st == ValidateChecks([all_valid |-> all_valid, statistics |-> statistics,
                                 sequence_ids |-> sequence_ids])
       IN /\ all_valid' = st.all_valid
          /\ statistics' = st.statistics
          /\ headers_valid' = st.all_valid
    /\ pc' = "create_rgs_output"
    /\ UNCHANGED <<input_fasta_001, sequence_ids, output_file_001, validation_result,
                   exit_status, not001Vars>>

\* lines 458-487: main copies the input to rgs.aa, writes the report and
\* exits with 0 when the file name and the headers are valid, else with 1
Main001Finish ==
    /\ pc = "create_rgs_output"
    /\ output_file_001' = input_fasta_001
    /\ validation_result' = IF headers_valid THEN "PASS" ELSE "FAIL"
    /\ exit_status' = IF headers_valid THEN 0 ELSE 1
    /\ pc' = "exited"
    /\ UNCHANGED <<input_fasta_001, all_valid, statistics, sequence_ids, headers_valid,
                   not001Vars>>

Next001 == Validate001Line \/ Validate001Return \/ Main001Finish

Spec001 == Init001 /\ [][Next001]_vars

(***************************************************************************)
(* Script 002: extract_species_from_database_path and                      *)
(* generate_blastp_commands                                                *)
(***************************************************************************)
\* '_'.join( parts )
RECURSIVE JoinUnderscore(_)
JoinUnderscore(parts) ==
    IF parts = <<>> THEN <<>>
    ELSE IF Len(parts) = 1 THEN parts[1]
    ELSE parts[1] \o <<"_">> \o JoinUnderscore(Tail(parts))

\* database_path.split( '___' )[ 0 ] (line 85 of script 002)
RECURSIVE BeforeTripleUnderscore(_)
BeforeTripleUnderscore(path) ==
    IF path = <<>> THEN <<>>
    ELSE IF StartsWith(path, <<"_", "_", "_">>) THEN <<>>
    ELSE <<Head(path)>> \o BeforeTripleUnderscore(Tail(path))

\* lines 85-99 of script 002
extract_species_from_database_path(database_path) ==
    LET phyloname == BeforeTripleUnderscore(database_path)
        parts == Split(phyloname, "_")
    IN IF Len(parts) >= 7
       THEN parts[6] \o <<"_">> \o JoinUnderscore(SubSeq(parts, 7, Len(parts)))
       ELSE JoinUnderscore(SubSeq(parts, IF Len(parts) >= 2 THEN Len(parts) - 1 ELSE 1,
                                  Len(parts)))

\* lines 131 and 148 of script 002: the report path of a species
ReportPrefix002 == <<"o", "u", "t", "p", "u", "t", "/", "3", "-", "o", "u", "t", "p", "u", "t", "/", "3", "_", "a", "i", "-", "b", "l", "a", "s", "t", "-", "r", "e", "p", "o", "r", "t", "-", "r", "g", "s", "-", "v", "e", "r", "s", "u", "s", "-", "p", "r", "o", "j", "e", "c", "t", "d", "b", "-">>
ReportSuffix == <<".", "b", "l", "a", "s", "t", "p">>
OutputFile002(genus_species) == ReportPrefix002 \o genus_species \o ReportSuffix

\* lines 139-162 of script 002: one line of the database list; the command
\* is held by its arguments, background says that it ends with '&'
CommandLine002(command_list, line, rgs_fasta_file) ==
    LET database_path == Strip(line)
    IN IF database_path = <<>> THEN command_list
       ELSE Append(command_list,
                   [program |-> "blastp", db |-> database_path, query |-> rgs_fasta_file,
                    out |-> OutputFile002(extract_species_from_database_path(database_path)),
                    outfmt |-> 6, evalue |-> "1e-3", max_hsps |-> 1, num_threads |-> 30,
                    background |-> TRUE])

(***************************************************************************)
(* Script 002: a run of generate_blastp_commands over a database list      *)
(***************************************************************************)
MaxDatabaseLines == 3

DbHomoA == <<"d", "/", "K", "_", "P", "_", "C", "_", "O", "_", "F", "_", "H", "o", "m", "o", "_", "s", "a", "p", "i", "e", "n", "s", "_", "_", "_", "a", "1", ".", "a", "a", "\n">>
DbHomoB == <<"d", "/", "K", "_", "P", "_", "C", "_", "O", "_", "F", "_", "H", "o", "m", "o", "_", "s", "a", "p", "i", "e", "n", "s", "_", "_", "_", "a", "2", ".", "a", "a", "\n">>
DbFly == <<"d", "/", "K", "_", "P", "_", "C", "_", "O", "_", "F", "_", "D", "r", "o", "s", "o", "p", "h", "i", "l", "a", "_", "m", "e", "l", "a", "n", "o", "g", "a", "s", "t", "e", "r", "_", "_", "_", "a", "3", ".", "a", "a", " ", "\n">>
DbShort == <<"e", "/", "M", "u", "s", "_", "m", "u", "s", "_", "_", "_", "a", "4", ".", "a", "a">>

DatabaseLinePool == {DbHomoA, DbHomoB, DbFly, DbShort, Newline}

RgsFastaFile == <<"i", "n", "/", "r", "g", "s", ".", "a", "a">>

not002Vars == <<stage2Vars, notExitVars, speciesVars, remapVars, assembleVars,
                validateVars>>

Init002 ==
    /\ pc = "generate_blastp_commands"
    /\ SearchIdle
    /\ Stage2Idle /\ MainIdle /\ SpeciesIdle /\ RemapIdle /\ AssembleIdle
    /\ ValidateIdle

\* lines 138-162: the next line of the database list
Search002Line ==
    /\ pc = "generate_blastp_commands"
    /\ Len(database_list_read) < MaxDatabaseLines
    /\ MoreLines(database_list_read)
    /\ \E line \in DatabaseLinePool :
          /\ database_list_read' = Append(database_list_read, line)
          /\ commands' = CommandLine002(commands, line, RgsFastaFile)
    /\ UNCHANGED <<pc, exit_status, not002Vars>>

\* lines 167-174: the list has no further line; wait and echo are added
Search002Return ==
    /\ pc = "generate_blastp_commands"
    /\ commands' = commands \o <<[program |-> "wait"], [program |-> "echo"]>>
    /\ pc' = "commands_generated"
    /\ UNCHANGED <<database_list_read, exit_status, not002Vars>>

Next002 == Search002Line \/ Search002Return

Spec002 == Init002 /\ [][Next002]_vars

(***************************************************************************)
(* Scripts 015 and 016: both loaders of the candidate-to-canonical table   *)
(* applied to one table file                                               *)
(***************************************************************************)
MaxTableLines == 3

CanonicalOther == <<"g", "_", "C", "-", "n", "_", "F", "l", "y">>

\* lines of a table: a row, a row of three columns, a row that starts with
\* '#', a line of one column, a blank line
TableLinePool ==
    {G7 \o Tab \o CanonicalHomo \o Newline,
     G8 \o Tab \o CanonicalMus \o Tab \o <<"x">> \o Newline,
     <<"#">> \o G9 \o Tab \o CanonicalOther \o Newline,
     G7 \o Newline,
     Newline}

TableFiles == UNION {[1..n -> TableLinePool] : n \in 0..MaxTableLines}

notTableVars == <<stage2Vars, notExitVars, speciesVars, validateVars, searchVars>>

InitTables ==
    /\ pc = "load_identifier_mapping"
    /\ identifier_mapping_file \in TableFiles
    /\ cgs_mapping_file = identifier_mapping_file
    /\ short_ids___gigantic_ids = EmptyDict
    /\ input_fasta_015 = <<>>
    /\ output_fasta_015 = <<>>
    /\ sequences_processed = 0
    /\ sequences_remapped = 0
    /\ sequences_not_found = 0
    /\ rgs_map_file = None
    /\ cgs_file = <<>>
    /\ rgs_headers___cgs_ids = <<>>
    /\ cgs_ids___gigantic_ids = EmptyDict
    /\ rgs_file_read = <<>>
    /\ remapped_sequences = <<>>
    /\ current_header = None
    /\ current_sequence_parts = <<>>
    /\ unmapped_count = 0
    /\ mapped_count = 0
    /\ output_file_016 = <<>>
    /\ total_sequences = None
    /\ Stage2Idle /\ MainIdle /\ SpeciesIdle /\ ValidateIdle /\ SearchIdle

\* line 234 of script 015: the candidate chain loads the table
Tables015Load ==
    /\ pc = "load_identifier_mapping"
    /\ short_ids___gigantic_ids' = load_identifier_mapping(identifier_mapping_file, EmptyDict)
    /\ pc' = "load_cgs_to_gigantic_map"
    /\ UNCHANGED <<identifier_mapping_file, input_fasta_015, output_fasta_015,
                   sequences_processed, sequences_remapped, sequences_not_found,
                   assembleVars, exit_status, notTableVars>>

\* line 343 of script 016: the reference chain loads the same table
Tables016Load ==
    /\ pc = "load_cgs_to_gigantic_map"
    /\ cgs_ids___gigantic_ids' = load_cgs_to_gigantic_map(cgs_mapping_file, EmptyDict)
    /\ pc' = "tables_loaded"
    /\ UNCHANGED <<rgs_map_file, cgs_mapping_file, cgs_file, rgs_headers___cgs_ids,
                   rgs_file_read, remapped_sequences, current_header,
                   current_sequence_parts, unmapped_count, mapped_count,
                   output_file_016, total_sequences, remapVars, exit_status,
                   notTableVars>>

NextTables == Tables015Load \/ Tables016Load

SpecTables == InitTables /\ [][NextTables]_vars

(***************************************************************************)
(* The two chains in one run: script 013 filters the candidates with the   *)
(* mapping table of script 008, script 015 renames the keepers, script 016 *)
(* renames the references and joins the two                                *)
(***************************************************************************)
\* lines 140-159 of script 015: the loop over the whole candidate FASTA
RECURSIVE remap_fasta_identifiers(_, _, _)
remap_fasta_identifiers(st, lines, table) ==
    IF lines = <<>> THEN st
    ELSE remap_fasta_identifiers(RemapLine(st, Head(lines), table), Tail(lines), table)

\* lines 176-227 of script 016: the loop over the whole reference FASTA
RECURSIVE RemapRgsLines(_, _, _, _)
RemapRgsLines(st, lines, d, table) ==
    IF lines = <<>> THEN st
    ELSE RemapRgsLines(RemapRgsLine(st, Head(lines), d, table), Tail(lines), d, table)

remap_rgs_sequences(lines, d, table) ==
    LET st == RemapRgsLines([remapped_sequences |-> <<>>, current_header |-> None,
                             current_sequence_parts |-> <<>>, mapped_count |-> 0,
                             unmapped_count |-> 0], lines, d, table)
    IN [st EXCEPT !.remapped_sequences = SavedSequences(st)]

\* the reference FASTA of the run: the reference set in file order
PipelineRgsFile ==
    <<<<">">> \o RgsFileOrder[1] \o Newline, <<"M", "K", "L", "\n">>,
      <<">">> \o RgsFileOrder[2] \o Newline, <<"A", "C", "\n">>,
      <<">">> \o RgsFileOrder[3] \o Newline, <<"M", "K", "\n">>>>

\* injective candidate-to-canonical tables: every identifier of the project
\* database, one without the row of G7, one without the row of the candidate
PipelineTables ==
    {<<G7 \o Tab \o CanonicalHomo \o Newline, G8 \o Tab \o CanonicalMus \o Newline,
       Cand1 \o Tab \o CanonicalOther \o Newline>>,
     <<G8 \o Tab \o CanonicalMus \o Newline, Cand1 \o Tab \o CanonicalOther \o Newline>>,
     <<G7 \o Tab \o CanonicalHomo \o Newline, G8 \o Tab \o CanonicalMus \o Newline>>}

\* the report of the run: candidates and mapped genome sequences as queries,
\* hits to a model species and to another species
PipelineLinePool == {Row(q, h) : q \in {G7, G8, Cand1}, h \in {HitDecoy, HitMouse}}

notPipelineVars == <<truncVars, mapperVars, notExitVars, synthVars, speciesVars,
                     validateVars, searchVars>>

\* the keeper FASTA is absent, or was left by an earlier run over the same
\* mapping table; scripts 015 and 016 read one table
InitPipeline ==
    /\ pc = "load_rgs_identifiers"
    /\ mapping_file \in MappingFiles
    /\ \/ output_fasta_013 = None
       \/ /\ ~InList(G7, load_rgs_identifiers(mapping_file))
          /\ output_fasta_013 = StaleKeeperFasta
    /\ rgs_identifiers = <<>>
    /\ recip_lines_read = <<>>
    /\ keepers = <<>>
    /\ output_dropped = <<>>
    /\ identifier_mapping_file \in PipelineTables
    /\ cgs_mapping_file = identifier_mapping_file
    /\ rgs_map_file = mapping_file
    /\ short_ids___gigantic_ids = EmptyDict
    /\ input_fasta_015 = <<>>
    /\ output_fasta_015 = <<>>
    /\ sequences_processed = 0
    /\ sequences_remapped = 0
    /\ sequences_not_found = 0
    /\ cgs_file = <<>>
    /\ rgs_headers___cgs_ids = <<>>
    /\ cgs_ids___gigantic_ids = EmptyDict
    /\ rgs_file_read = <<>>
    /\ remapped_sequences = <<>>
    /\ current_header = None
    /\ current_sequence_parts = <<>>
    /\ unmapped_count = 0
    /\ mapped_count = 0
    /\ output_file_016 = <<>>
    /\ total_sequences = None
    /\ TruncIdle /\ MapperIdle /\ MainIdle /\ SynthIdle /\ SpeciesIdle
    /\ ValidateIdle /\ SearchIdle

\* lines 132-160 of script 013: the next line of the report of the run
Pipeline013Line ==
    /\ pc = "parse_reciprocal"
    /\ Len(recip_lines_read) < MaxRecipRows
    /\ \E raw_line \in PipelineLinePool :
        /\ LET st == ParseReciprocalLine(
                         [keepers |-> keepers, output_dropped |-> output_dropped],
                         raw_line, rgs_identifiers, rbh_species)
           IN keepers' = st.keepers /\ output_dropped' = st.output_dropped
        /\ recip_lines_read' = Append(recip_lines_read, raw_line)
    /\ UNCHANGED <<pc, mapping_file, rgs_identifiers, output_fasta_013, not013Vars>>

\* script 015 after script 013 has ended with status 0 (lines 234-264 of
\* script 015): the keeper FASTA is renamed; status 1 when no sequence was
\* remapped
Pipeline015 ==
    /\ pc \in {"exited", "done"}
    /\ exit_status = 0
    /\ LET table == load_identifier_mapping(identifier_mapping_file, EmptyDict)
           st == remap_fasta_identifiers(
                     [output |-> <<>>, sequences_processed |-> 0,
                      sequences_remapped |-> 0, sequences_not_found |-> 0],
                     output_fasta_013, table)
       IN /\ short_ids___gigantic_ids' = table
          /\ input_fasta_015' = output_fasta_013
          /\ output_fasta_015' = st.output
          /\ sequences_processed' = st.sequences_processed
          /\ sequences_remapped' = st.sequences_remapped
          /\ sequences_not_found' = st.sequences_not_found
          /\ IF st.sequences_remapped = 0
             THEN pc' = "stopped_015" /\ exit_status' = 1
             ELSE pc' = "remapped_015" /\ exit_status' = 0
    /\ UNCHANGED <<identifier_mapping_file, assembleVars, mapping_file, filterVars,
                   notPipelineVars>>

\* script 016 after script 015 (lines 342-380 of script 016): the references
\* are renamed and written, the renamed keepers follow
Pipeline016 ==
    /\ pc = "remapped_015"
    /\ LET d == load_rgs_to_cgs_map(rgs_map_file, <<>>)
           table == load_cgs_to_gigantic_map(cgs_mapping_file, EmptyDict)
           st == remap_rgs_sequences(PipelineRgsFile, d, table)
       IN /\ rgs_headers___cgs_ids' = d
          /\ cgs_ids___gigantic_ids' = table
          /\ rgs_file_read' = PipelineRgsFile
          /\ remapped_sequences' = st.remapped_sequences
          /\ current_header' = st.current_header
          /\ current_sequence_parts' = st.current_sequence_parts
          /\ mapped_count' = st.mapped_count
          /\ unmapped_count' = st.unmapped_count
          /\ cgs_file' = output_fasta_015
          /\ output_file_016' = WriteRemapped(st.remapped_sequences) \o output_fasta_015
          /\ total_sequences' = Len(st.remapped_sequences)
                                + count_sequences_in_fasta(output_fasta_015)
    /\ exit_status' = 0
    /\ pc' = "assembled"
    /\ UNCHANGED <<rgs_map_file, cgs_mapping_file, remapVars, mapping_file, filterVars,
                   notExitVars, truncVars, mapperVars, synthVars, speciesVars,
                   validateVars, searchVars>>

NextPipeline ==
    Filter013Load \/ Pipeline013Line \/ Filter013Return \/ Main013Finish
    \/ Pipeline015 \/ Pipeline016

SpecPipeline == InitPipeline /\ [][NextPipeline]_vars

(***************************************************************************)
(* Properties of the truncator                                             *)
(***************************************************************************)
Truncated == DOMAIN original_to_truncated

\* C1: no two distinct headers of the list have the same output.
C1_TruncatorInjective ==
    \A h1 \in Truncated : \A h2 \in Truncated :
        h1 # h2 => original_to_truncated[h1] # original_to_truncated[h2]

\* C5: every header of length <= max_length is mapped to itself, whatever
\* other headers were processed before or after it.
C5_PassthroughIdentity ==
    \A h \in Truncated : Len(h) <= max_length => original_to_truncated[h] = h

C5_Witness ==
    /\ pc = "truncate_returned"
    /\ max_length = DefaultMaxLength
    /\ {HExact50, HLong51b, HPass49} \subseteq Truncated
    /\ original_to_truncated[HLong51b] # HLong51b

\* C6: every output has length <= max_length, also when the counter of a
\* base has grown past 999.
C6_TruncatedLengthBound ==
    \A h \in Truncated : Len(original_to_truncated[h]) <= max_length

\* k in decimal with at least three digits, for k < 100000
ZeroPad3(k) ==
    (IF k >= 10000 THEN <<Digits[((k \div 10000) % 10) + 1]>> ELSE <<>>)
    \o (IF k >= 1000 THEN <<Digits[((k \div 1000) % 10) + 1]>> ELSE <<>>)
    \o <<Digits[((k \div 100) % 10) + 1], Digits[((k \div 10) % 10) + 1],
         Digits[(k % 10) + 1]>>

\* the number of list entries processed so far that are longer than 50 and
\* start with the given 45 characters: the entries other than HLong52 are
\* distinct, every further entry is HLong52
LongWithPrefix(prefix) ==
    LET others == Truncated \ {HLong52}
    IN Cardinality({h \in others : Len(h) > 50 /\ SubSeq(h, 1, 45) = prefix})
       + (IF SubSeq(HLong52, 1, 45) = prefix
          THEN headers_done - Cardinality(others) ELSE 0)

\* the entry just processed is longer than 50 and is mapped to its first 45
\* characters, '_' and its rank k among the entries of that prefix
SuffixIsRank ==
    LET prefix == SubSeq(original_header, 1, 45)
    IN original_to_truncated[original_header]
          = prefix \o <<"_">> \o ZeroPad3(LongWithPrefix(prefix))

\* C7 as stated: with max_length 50 and truncate_to 45, the k-th header longer
\* than 50 that shares a 45-character prefix is mapped to prefix, '_', k
\* zero-padded to three digits, for every k.
C7_CounterSuffixEveryRank ==
    (original_header # None /\ Len(original_header) > 50) => SuffixIsRank

\* C7 as amended: the same for 1 <= k <= 9999, and the output then has
\* length <= 50.
C7_CounterSuffix ==
    (original_header # None /\ Len(original_header) > 50
        /\ LongWithPrefix(SubSeq(original_header, 1, 45)) <= 9999) =>
       /\ SuffixIsRank
       /\ Len(original_to_truncated[original_header]) <= 50

C7_Witness ==
    /\ pc = "truncate_returned"
    /\ headers_done = 3
    /\ original_header = HLong52
    /\ original_to_truncated = (HLong51b :> Prefix45 \o <<"_", "0", "0", "1">>)
                            @@ (HLong51c :> Prefix45 \o <<"_", "0", "0", "2">>)
                            @@ (HLong52 :> Prefix45 \o <<"_", "0", "0", "3">>)

(***************************************************************************)
(* Properties of the mapper and of main (script 008)                       *)
(***************************************************************************)
\* the columns of the rows of the mapping table main wrote
MappingTableRows ==
    LET lines == output_files["output_mapping"]
    IN [i \in 1..Len(lines) |-> Split(Strip(lines[i]), "\t")]

\* C2: at every point of the run the mapping has no repeated reference
\* identifier as value and no repeated genome identifier as key, in memory
\* and in the mapping table written from it.
C2_MapperBijection ==
    /\ \A g1 \in DOMAIN genome_to_rgs : \A g2 \in DOMAIN genome_to_rgs :
           g1 # g2 => genome_to_rgs[g1] # genome_to_rgs[g2]
    /\ "output_mapping" \in DOMAIN output_files =>
           /\ Len(MappingTableRows) = Cardinality(DOMAIN genome_to_rgs)
           /\ \A i \in DOMAIN MappingTableRows : \A j \in DOMAIN MappingTableRows :
                  i # j => /\ MappingTableRows[i][1] # MappingTableRows[j][1]
                           /\ MappingTableRows[i][3] # MappingTableRows[j][3]

C2_Witness ==
    /\ pc = "done"
    /\ reports_done = 2
    /\ lines_read = <<Row(RgsHuman1, G7), Row(RgsHuman1, G8)>>
    /\ genome_to_rgs = (G7 :> RgsHuman1)
    /\ Len(output_files["output_mapping"]) = 1

\* C8: a recorded pair is never changed or removed by a later row or a
\* later report; a genome identifier paired by an earlier report is not
\* available to a later one.
C8_FirstProcessedWins ==
    [][\A g \in DOMAIN genome_to_rgs :
           g \in DOMAIN genome_to_rgs' /\ genome_to_rgs'[g] = genome_to_rgs[g]]_vars

C8_Witness ==
    /\ pc = "mapped"
    /\ reports_done = 2
    /\ blast_report.path = PathFly
    /\ lines_read = <<Row(RgsFly3, G7)>>
    /\ genome_to_rgs = (G7 :> RgsHuman1)

\* C9: with no mapping, main never reaches a write, no artifact exists, and
\* the run ends with exit status 1.
C9_EmptyMappingFatal ==
    genome_to_rgs = EmptyDict =>
        /\ output_files = EmptyDict
        /\ pc \in {"read_rgs", "for_report", "for_line", "mapped", "exited"}
        /\ pc = "exited" => exit_status = 1

C9_Witness ==
    /\ pc = "exited"
    /\ exit_status = 1
    /\ rgs_sequences # EmptyDict
    /\ reports_done = 2
    /\ blast_report.exists
    /\ blast_report.path = PathFly
    /\ lines_read = <<Row(RgsHuman1, G7)>>
    /\ output_files = EmptyDict

\* C10: a report that does not exist contributes nothing and is no error:
\* the step that takes it from the list leaves the mapping and both consumed
\* sets as they were and the loop goes on to the next report, so the mapping
\* is that of the existing reports alone; a run that read a reference set
\* fails only with an empty mapping.
C10_MissingReportTolerated ==
    /\ [][(pc = "for_report" /\ reports_done' = reports_done + 1
              /\ ~blast_report'.exists)
          => /\ pc' = "for_report"
             /\ UNCHANGED <<genome_to_rgs, rgs_seen, genome_ids_seen, output_files>>]_vars
    /\ []((pc = "exited" /\ rgs_sequences # EmptyDict) =>
              exit_status = 1 /\ genome_to_rgs = EmptyDict)

C10_Witness ==
    /\ pc = "done"
    /\ exit_status = 0
    /\ reports_done = 2
    /\ ~blast_report.exists
    /\ genome_to_rgs = (G7 :> RgsHumanLong)

(***************************************************************************)
(* Properties of the reciprocal filter (script 013)                        *)
(***************************************************************************)
\* the identifiers of the reference set, full and truncated
ReferenceIdentifiers ==
    DOMAIN RgsSequencesRead \cup {RunTruncationMap[h] : h \in DOMAIN RgsSequencesRead}

\* C3: no keeper is an identifier of a reference-set sequence, full or
\* truncated.
C3_AntiCircularity ==
    \A i \in 1..Len(keepers) : keepers[i] \notin ReferenceIdentifiers

(***************************************************************************)
(* Properties of the modified-genome writer (script 009)                   *)
(***************************************************************************)
\* the lines of a file's text, without their newlines
FileLines(text) ==
    LET pieces == Split(text, "\n")
    IN IF pieces[Len(pieces)] = <<>> THEN SubSeq(pieces, 1, Len(pieces) - 1) ELSE pieces

\* the sequence records of a FASTA text: identifier and residues, in order
RECURSIVE RecordsOf(_, _)
RecordsOf(lines, records) ==
    IF lines = <<>> THEN records
    ELSE IF StartsWith(Head(lines), <<">">>)
    THEN RecordsOf(Tail(lines),
                   Append(records, [identifier |-> Strip(SliceFrom(Head(lines), 1)),
                                    residues |-> <<>>]))
    ELSE IF records = <<>> THEN RecordsOf(Tail(lines), records)
    ELSE RecordsOf(Tail(lines),
                   [records EXCEPT ![Len(records)].residues = @ \o Strip(Head(lines))])

FastaRecords(written) == RecordsOf(FileLines(Flatten(written)), <<>>)

\* the decoy that replaces the record of a mapped genome identifier
DecoyOf(genome_id) ==
    [identifier |-> genome_identifiers___truncated_rgs_headers[genome_id],
     residues |-> rgs_sequences_009[genome_identifiers___full_rgs_headers[genome_id]]]

\* C4: the modified genome has as many records as the genome read, in the
\* same order: record i is record i of the genome or the decoy that replaces
\* it, also when the reference sequence of a mapped key is missing or empty.
C4_ShapePreserved ==
    LET original == FastaRecords(genome_lines_read)
        modified == FastaRecords(output_fasta)
    IN /\ Len(modified) = Len(original)
       /\ sequences_replaced + sequences_kept = Len(original)
       /\ \A i \in 1..Len(original) :
              \/ modified[i] = original[i]
              \/ /\ original[i].identifier \in DOMAIN genome_identifiers___full_rgs_headers
                 /\ genome_identifiers___full_rgs_headers[original[i].identifier]
                        \in DOMAIN rgs_sequences_009
                 /\ modified[i] = DecoyOf(original[i].identifier)

C4_Witness ==
    /\ pc = "modified_genome_written"
    /\ rgs_sequences_009 = RgsDamaged009
    /\ genome_lines_read = <<<<">">> \o G7 \o Newline, <<"M", "K", "L", "\n">>,
                             <<">">> \o G8 \o Newline, <<"A", "C">>>>
    /\ genome_identifiers___full_rgs_headers = (G7 :> RgsHumanLong) @@ (G8 :> RgsHuman1)
    /\ FastaRecords(output_fasta)
          = <<[identifier |-> RunTruncationMap[RgsHumanLong], residues |-> Repeat("M", 81)],
              [identifier |-> G8, residues |-> <<"A", "C">>]>>

(***************************************************************************)
(* Properties of the species filter (script 014)                           *)
(***************************************************************************)
\* the fragments of the allow-list file
AllowList == {Strip(species_keeper_list[i]) : i \in 1..Len(species_keeper_list)} \ {<<>>}

\* the records of a FASTA file: each a header line with its residue lines
RECURSIVE RawRecords(_, _)
RawRecords(lines, records) ==
    IF lines = <<>> THEN records
    ELSE IF Head(lines)[1] = ">"
    THEN RawRecords(Tail(lines), Append(records, <<Head(lines)>>))
    ELSE IF records = <<>> THEN RawRecords(Tail(lines), records)
    ELSE RawRecords(Tail(lines), [records EXCEPT ![Len(records)] = Append(@, Head(lines))])

\* a record is retained iff a fragment is a substring of its header
Retained(record) ==
    LET header == Strip(SubSeq(record[1], 2, Len(record[1])))
    IN \E fragment \in AllowList :
          \E i \in 0..(Len(header) - Len(fragment)) :
              SubSeq(header, i + 1, i + Len(fragment)) = fragment

\* C11: the output holds exactly the retained records of the input, each with
\* its header and all its residue lines, in input order, and kept + dropped
\* is the number of input records.
C11_SpeciesFilterPredicate ==
    pc \in {"for_line_014", "done"} =>
        LET records == RawRecords(input_fasta_014, <<>>)
            retained == SelectSeq(records, Retained)
        IN /\ RawRecords(output_fasta_014, <<>>) = retained
           /\ Flatten(output_fasta_014) = Flatten(Flatten(retained))
           /\ kept_count = Len(retained)
           /\ kept_count + dropped_count = Len(records)

C11_Witness ==
    /\ pc = "done"
    /\ AllowList = {FragmentHomo}
    /\ input_fasta_014 = <<CandMus, <<"M", "K", "L", "\n">>, CandHomo, <<"A", "C">>>>
    /\ output_fasta_014 = <<CandHomo, <<"A", "C">>>>
    /\ kept_count = 1 /\ dropped_count = 1

\* C12: with an allow-list without fragments the output FASTA is an empty
\* file after the run, whatever the output path held before.
C12_EmptyAllowListEmptyOutput ==
    (pc \in {"exited", "done"} /\ AllowList = {}) => output_fasta_014 = <<>>

(***************************************************************************)
(* Properties of the candidate remapper (script 015)                       *)
(***************************************************************************)
\* the identifier of a record: its header line without '>' and surrounding blanks
IdentifierOf(record) == Strip(SubSeq(record[1], 2, Len(record[1])))

\* C13: each candidate record whose identifier is a key of the table gets the
\* table's canonical identifier as header, every other record keeps its
\* header line and counts once as not found; residue lines are copied
\* unchanged and processed = remapped + not found.
C13_CandidateMissingLink ==
    LET original == RawRecords(input_fasta_015, <<>>)
        remapped == RawRecords(output_fasta_015, <<>>)
        found == {i \in 1..Len(original) :
                     IdentifierOf(original[i]) \in DOMAIN short_ids___gigantic_ids}
    IN pc \in {"for_line_015", "done", "exited"} =>
       /\ Len(remapped) = Len(original)
       /\ \A i \in 1..Len(original) :
             /\ Tail(remapped[i]) = Tail(original[i])
             /\ remapped[i][1] =
                   IF i \in found
                   THEN <<">">> \o short_ids___gigantic_ids[IdentifierOf(original[i])]
                        \o <<"\n">>
                   ELSE original[i][1]
       /\ sequences_remapped = Cardinality(found)
       /\ sequences_not_found = Len(original) - Cardinality(found)
       /\ sequences_processed = sequences_remapped + sequences_not_found

C13_Witness ==
    /\ pc = "done"
    /\ DOMAIN short_ids___gigantic_ids = {IdHomo}
    /\ input_fasta_015 = <<CandHomo, <<"M", "K", "L", "\n">>, CandMus, <<"A", "C">>>>
    /\ output_fasta_015 = <<<<">">> \o CanonicalHomo \o Newline, <<"M", "K", "L", "\n">>,
                            CandMus, <<"A", "C">>>>
    /\ sequences_not_found = 1

(***************************************************************************)
(* Properties of the assembler and the reference remapper (script 016)     *)
(***************************************************************************)
\* the canonical identifiers of the candidate-to-canonical table
CanonicalIds == {cgs_ids___gigantic_ids[k] : k \in DOMAIN cgs_ids___gigantic_ids}

\* C14: the assembled file holds one record for every record of the reference
\* file, in reference-file order and with its residues, followed by the
\* records of the candidate file; its number of records is reference count +
\* candidate count.
C14_AssemblerCountAndOrder ==
    pc = "done" =>
        LET references == FastaRecords(rgs_file_read)
            candidates == FastaRecords(cgs_file)
            assembled == FastaRecords(output_file_016)
            n == Len(references)
        IN /\ Len(assembled) = n + Len(candidates)
           /\ total_sequences = Len(assembled)
           /\ \A i \in 1..n :
                 /\ assembled[i].residues = references[i].residues
                 /\ assembled[i].identifier
                       \in {references[i].identifier} \cup CanonicalIds
           /\ \A j \in 1..Len(candidates) : assembled[n + j] = candidates[j]

C14_Witness ==
    /\ pc = "done"
    /\ rgs_file_read = <<<<">">> \o RgsFly3 \o Newline, <<"M", "K", "L", "\n">>,
                         <<">">> \o RgsHuman1 \o Newline, <<"A", "C">>>>
    /\ Len(cgs_file) = 4
    /\ FastaRecords(output_file_016)[2] = [identifier |-> CanonicalHomo,
                                           residues |-> <<"A", "C">>]
    /\ total_sequences = 4

\* C15: a run of the remapper that resolves no sequence (no reference
\* remapped, no candidate in the remapped candidate file) ends with a
\* non-zero exit status.
C15_ZeroResolvedFatal ==
    (pc \in {"done", "exited"} /\ mapped_count = 0 /\ FastaRecords(cgs_file) = <<>>)
        => exit_status # 0

\* the headers of the reference records read so far
ReferenceHeaders ==
    LET records == RawRecords(rgs_file_read, <<>>)
    IN [i \in 1..Len(records) |->
           LET line == RStripNewline(records[i][1]) IN SubSeq(line, 2, Len(line))]

\* the headers given to them
RemappedHeaders ==
    [i \in 1..Len(remapped_sequences) |-> remapped_sequences[i][1]]
    \o (IF pc = "for_rgs_line" /\ current_header # None THEN <<current_header>> ELSE <<>>)

\* both links exist for the header itself
Linked(header) ==
    /\ OrderedHas(rgs_headers___cgs_ids, header)
    /\ OrderedGet(rgs_headers___cgs_ids, header) \in DOMAIN cgs_ids___gigantic_ids

\* C20: a reference header gets the canonical identifier only when the header
\* itself is a key of the genome-reference mapping and its candidate id is a
\* key of the candidate-to-canonical table; otherwise it is kept unchanged
\* and counted as unmapped.
C20_ReferenceMissingLink ==
    pc \in {"for_rgs_line", "write_016", "done"} =>
        /\ Len(RemappedHeaders) = Len(ReferenceHeaders)
        /\ \A i \in 1..Len(ReferenceHeaders) :
              RemappedHeaders[i] =
                  IF Linked(ReferenceHeaders[i])
                  THEN cgs_ids___gigantic_ids[OrderedGet(rgs_headers___cgs_ids,
                                                         ReferenceHeaders[i])]
                  ELSE ReferenceHeaders[i]
        /\ unmapped_count =
              Cardinality({i \in 1..Len(ReferenceHeaders) : ~Linked(ReferenceHeaders[i])})


(***************************************************************************)
(* Properties of the end of script 013 and of its pass over the report     *)
(***************************************************************************)
\* the query and the hit of a report row with at least two columns
RowQuery(raw_line) == Split(Strip(raw_line), "\t")[1]
RowHit(raw_line) == Split(Strip(raw_line), "\t")[2]

\* whether the species of a hit can be parsed and is a model species
ModelSpeciesHit(hit) ==
    /\ Len(Split(hit, "-")) >= 2
    /\ HitIsRbhSpecies(hit, rbh_species)

RowsOf(query) ==
    {j \in 1..Len(recip_lines_read) : RowQuery(recip_lines_read[j]) = query}

\* the first row of a query, its best hit
BestHit(query) ==
    RowHit(recip_lines_read[CHOOSE j \in RowsOf(query) : \A k \in RowsOf(query) : j <= k])

\* C18: a query of the report whose best hit, the first row of the query,
\* has a species field is a keeper if and only if that best hit is to a
\* model species and the query is no reference-set identifier of the loaded
\* mapping table.
C18_ClassifiedByBestHit ==
    \A q \in {RowQuery(recip_lines_read[j]) : j \in 1..Len(recip_lines_read)} :
        Len(Split(BestHit(q), "-")) >= 2 =>
            (InList(q, keepers) <=>
                (ModelSpeciesHit(BestHit(q)) /\ ~InList(q, rgs_identifiers)))

\* C19: every row of the report read so far whose hit has a species field
\* either made its query a keeper or stands in the rejects log as
\* query, tab, hit.
C19_RejectsLogComplete ==
    \A j \in 1..Len(recip_lines_read) :
        LET query == RowQuery(recip_lines_read[j])
            hit == RowHit(recip_lines_read[j])
        IN Len(Split(hit, "-")) >= 2 =>
              \/ ModelSpeciesHit(hit) /\ ~InList(query, rgs_identifiers)
              \/ InList(query \o Tab \o hit \o Newline, output_dropped)

(***************************************************************************)
(* Properties of the reference-set validation (script 001)                 *)
(***************************************************************************)
\* the headers of the reference FASTA read by the run, without '>' and
\* surrounding blanks
HeadersOfFile ==
    LET RECURSIVE Collect(_)
        Collect(i) ==
            IF i > Len(input_fasta_001) THEN <<>>
            ELSE (IF input_fasta_001[i][1] = ">"
                  THEN <<Strip(SliceFrom(input_fasta_001[i], 1))>> ELSE <<>>)
                 \o Collect(i + 1)
    IN Collect(1)

\* a header of the form rgsN-species-source-identifier
HasRgsFormat(header) ==
    LET fields == Split(header, "-")
    IN /\ Len(fields) >= 4
       /\ Len(fields[1]) > 3
       /\ SubSeq(fields[1], 1, 3) = <<"r", "g", "s">>
       /\ IsDigit(SubSeq(fields[1], 4, Len(fields[1])))

\* the N of a header of that form
CountOfHeader(header) ==
    LET rgs == Split(header, "-")[1] IN IntOf(SubSeq(rgs, 4, Len(rgs)))

\* a reference file as the claim asks for it: every header has the form,
\* all carry the number of sequences of the file, none occurs twice
WellFormedReferenceFile ==
    LET headers == HeadersOfFile
    IN /\ \A i \in 1..Len(headers) : HasRgsFormat(headers[i])
       /\ \E n \in 0..MaxValidateLines :
             /\ n = Len(headers)
             /\ \A i \in 1..Len(headers) : CountOfHeader(headers[i]) = n
             /\ Len(headers) > 0
       /\ \A i \in 1..Len(headers) : \A j \in 1..Len(headers) :
             i # j => headers[i] # headers[j]

\* C17: when script 001 has ended on a reference file that is not well
\* formed (a header without the form, two values of N, an N that is not the
\* number of sequences, a repeated header, or no sequence at all),
\* validate_headers has reported it invalid and the exit status is not 0.
C17_ReferenceSetValidation ==
    (pc = "exited" /\ ~WellFormedReferenceFile) =>
        /\ headers_valid = FALSE
        /\ validation_result = "FAIL"
        /\ exit_status # 0

(***************************************************************************)
(* Properties of the mapper's greedy pass (script 008)                     *)
(***************************************************************************)
\* the species tag of a query: its second '-'-separated field, None without one
SpeciesTag(query_id) ==
    IF Len(Split(query_id, "-")) >= 2 THEN Split(query_id, "-")[2] ELSE None

\* C21: a step of the pass over a row (query_id, hit_id) records
\* hit_id -> query_id and marks both identifiers consumed if and only if the
\* query's species tag is the model species of the report and neither
\* identifier was consumed before; every other line leaves the mapping and
\* both consumed sets as they were.
C21_GreedyStep ==
    [][(pc = "for_line" /\ Len(lines_read') = Len(lines_read) + 1) =>
          LET line == Strip(lines_read'[Len(lines_read')])
              columns == Split(line, "\t")
              is_row == line # <<>> /\ line[1] # "#" /\ Len(columns) >= 2
              query_id == columns[1]
              hit_id == columns[2]
              designated == ReportModelSpecies(blast_report.path, model_species)
          IN IF /\ is_row
                /\ SpeciesTag(query_id) = designated
                /\ query_id \notin rgs_seen
                /\ hit_id \notin genome_ids_seen
             THEN /\ hit_id \notin DOMAIN genome_to_rgs
                  /\ genome_to_rgs' = [g \in DOMAIN genome_to_rgs \cup {hit_id} |->
                                          IF g = hit_id THEN query_id ELSE genome_to_rgs[g]]
                  /\ rgs_seen' = rgs_seen \cup {query_id}
                  /\ genome_ids_seen' = genome_ids_seen \cup {hit_id}
             ELSE UNCHANGED <<genome_to_rgs, rgs_seen, genome_ids_seen>>]_vars

C21_Witness ==
    /\ pc = "for_line"
    /\ blast_report.path = PathHuman
    /\ lines_read = <<Row(RgsFly3, G7), Row(RgsHuman1, G7)>>
    /\ genome_to_rgs = (G7 :> RgsHuman1)
    /\ rgs_seen = {RgsHuman1}
    /\ genome_ids_seen = {G7}

\* whether a line of a report is a row with the given query
IsRowOf(raw_line, query_id) ==
    LET line == Strip(raw_line)
        columns == Split(line, "\t")
    IN line # <<>> /\ line[1] # "#" /\ Len(columns) >= 2 /\ columns[1] = query_id

\* C24: when a step of the pass records a pair hit_id -> query_id, the row
\* read in that step is the first row of query_id in the report, the
\* query's best hit: no earlier row of the report has that query.
C24_PairsAreBestHits ==
    [][pc = "for_line" =>
          \A g \in DOMAIN genome_to_rgs' \ DOMAIN genome_to_rgs :
              \A i \in 1..Len(lines_read) : ~IsRowOf(lines_read[i], genome_to_rgs'[g])]_vars

(***************************************************************************)
(* Properties of the substitution of script 009                            *)
(***************************************************************************)
\* C22 as stated: every record of the genome whose identifier is a key of
\* the mapping is replaced, at its position, by the truncated identifier and
\* the residues of the mapped reference sequence; every other record is
\* emitted unchanged.
C22_EveryMappedKeyReplaced ==
    LET original == FastaRecords(genome_lines_read)
        modified == FastaRecords(output_fasta)
    IN /\ Len(modified) = Len(original)
       /\ \A i \in 1..Len(original) :
              IF original[i].identifier \in DOMAIN genome_identifiers___full_rgs_headers
              THEN /\ modified[i].identifier =
                          genome_identifiers___truncated_rgs_headers[original[i].identifier]
                   /\ genome_identifiers___full_rgs_headers[original[i].identifier]
                          \in DOMAIN rgs_sequences_009
                   /\ modified[i].residues =
                          rgs_sequences_009[genome_identifiers___full_rgs_headers[
                                                original[i].identifier]]
              ELSE modified[i] = original[i]

\* whether the reference file holds residues for the reference sequence a
\* genome identifier is mapped to
HasReplacement(genome_id) ==
    /\ genome_id \in DOMAIN genome_identifiers___full_rgs_headers
    /\ genome_identifiers___full_rgs_headers[genome_id] \in DOMAIN rgs_sequences_009
    /\ rgs_sequences_009[genome_identifiers___full_rgs_headers[genome_id]] # <<>>

\* C22, amended: a record of the genome is replaced, at its position, by
\* the truncated identifier and the residues of the mapped reference
\* sequence when its identifier is a key of the mapping and the reference
\* file holds residues for the mapped reference sequence; every other
\* record, a mapped one without such residues included, is emitted unchanged.
C22_SubstitutionRule ==
    LET original == FastaRecords(genome_lines_read)
        modified == FastaRecords(output_fasta)
    IN /\ Len(modified) = Len(original)
       /\ \A i \in 1..Len(original) :
              IF HasReplacement(original[i].identifier)
              THEN modified[i] = DecoyOf(original[i].identifier)
              ELSE modified[i] = original[i]

C22_Witness ==
    /\ pc = "modified_genome_written"
    /\ rgs_sequences_009 = RgsComplete009
    /\ genome_lines_read = <<<<">">> \o G9 \o Newline, <<"M", "K", "L", "\n">>,
                             <<">">> \o G7 \o Newline, <<"A", "C">>>>
    /\ genome_identifiers___full_rgs_headers = (G7 :> RgsHuman1)
    /\ sequences_replaced = 1
    /\ sequences_kept = 1
    /\ FastaRecords(output_fasta)
          = <<[identifier |-> G9, residues |-> <<"M", "K", "L">>],
              [identifier |-> RgsHuman1, residues |-> <<"M", "K", "L">>]>>

(***************************************************************************)
(* Properties of the generated search commands (script 002)                *)
(***************************************************************************)
\* the positions of the search commands, all started in the background
SearchCommands == {i \in 1..Len(commands) : commands[i].program = "blastp"}

\* C23: no two search commands generated for different databases have the
\* same -out report path, so no two of the concurrently started processes
\* write the same report file.
C23_DistinctReportFiles ==
    \A i \in SearchCommands : \A j \in SearchCommands :
        commands[i].db # commands[j].db => commands[i].out # commands[j].out

\* C25: with a bijective genome-reference mapping and an injective
\* candidate-to-canonical table, two reference records with different
\* headers get different headers in the remapped reference set.
C25_ReferenceRemapInjective ==
    pc \in {"for_rgs_line", "write_016", "done"} =>
        \A i \in 1..Len(RemappedHeaders) : \A j \in 1..Len(RemappedHeaders) :
            ReferenceHeaders[i] # ReferenceHeaders[j] =>
                RemappedHeaders[i] # RemappedHeaders[j]

\* C26 as stated: every keeper has a row in the report whose hit is a
\* reference decoy, a truncated or full identifier of a reference sequence
\* (every decoy of the mapping is one).
C26_KeeperLandedOnDecoy ==
    \A i \in 1..Len(keepers) :
        \E j \in RowsOf(keepers[i]) : RowHit(recip_lines_read[j]) \in ReferenceIdentifiers

\* the species field of a hit holds the name of a model species: the second
\* '-'-separated field, cut to what follows its last '_' and in lower case,
\* has a model species as a substring
SpeciesFieldNamesModel(hit) ==
    /\ Len(Split(hit, "-")) >= 2
    /\ LET pieces == Split(Split(hit, "-")[2], "_")
           name == Lower(pieces[Len(pieces)])
       IN \E s \in {Human, Fly} : Contains(name, s)

\* C26, amended: every keeper has a row in the report whose hit has a
\* species field that holds the name of a model species as a substring; the
\* hit need not be a decoy.
C26_KeeperHitModelSpecies ==
    \A i \in 1..Len(keepers) :
        \E j \in RowsOf(keepers[i]) : SpeciesFieldNamesModel(RowHit(recip_lines_read[j]))

C26_Witness ==
    /\ pc = "parsed"
    /\ recip_lines_read = <<Row(Cand1, HitMouse), Row(Cand1, HitOrdinary)>>
    /\ keepers = <<Cand1>>
    /\ Len(output_dropped) = 1

\* C28: no query is both in the keeper list and in a row of the rejects log.
C28_KeepersRejectsDisjoint ==
    \A i \in 1..Len(keepers) : \A j \in 1..Len(output_dropped) :
        RowQuery(output_dropped[j]) # keepers[i]

(***************************************************************************)
(* Properties of the two readers of the candidate-to-canonical table       *)
(***************************************************************************)
\* C29: when both chains have loaded the same table file, every candidate
\* identifier is resolved by both to the same canonical identifier or by
\* neither.
C29_TablesReadAlike ==
    pc = "tables_loaded" =>
        \A x \in DOMAIN short_ids___gigantic_ids \cup DOMAIN cgs_ids___gigantic_ids :
            /\ x \in DOMAIN short_ids___gigantic_ids
            /\ x \in DOMAIN cgs_ids___gigantic_ids
            /\ short_ids___gigantic_ids[x] = cgs_ids___gigantic_ids[x]

\* C30: for a genome with pairwise distinct identifiers, no two decoy
\* records of the modified genome have the same header, and no two of them
\* stand for the same reference sequence.
C30_DecoysUnique ==
    LET original == FastaRecords(genome_lines_read)
        modified == FastaRecords(output_fasta)
        decoys == {i \in 1..Len(original) : HasReplacement(original[i].identifier)}
    IN (\A i \in 1..Len(original) : \A j \in 1..Len(original) :
            i # j => original[i].identifier # original[j].identifier)
       => \A i \in decoys : \A j \in decoys :
              i # j =>
                 /\ modified[i].identifier # modified[j].identifier
                 /\ genome_identifiers___full_rgs_headers[original[i].identifier]
                       # genome_identifiers___full_rgs_headers[original[j].identifier]

====
